---- MODULE Spec2Model ----
(***************************************************************************)
(* Subscription-tracking bot: the recurring-date calendar engine           *)
(* (utils.py, database.py), and the notification scheduler                 *)
(* (notifications.py) running against the subscription repository.         *)
(*                                                                         *)
(* Dates are records [year, month, day]; datetime.date arithmetic is       *)
(* modelled through proleptic Gregorian ordinals, as CPython computes it.  *)
(***************************************************************************)
EXTENDS Integers, Sequences, FiniteSets, TLC

VARIABLES
    calStart,      \* start_date handed to the calendar engine
    calPeriod,     \* period handed to the calendar engine
    calToday,      \* what datetime.date.today() returns during the call
    calNext,       \* result of calculate_next_payment_date (NoDate before the call)
    calDaysLeft,   \* result of days_until_payment (0 before the call)
    calCount,      \* elapsed-period count n of get_total_expenses_active_periods
    calTotal,      \* total returned by get_total_expenses_active_periods for the row
    calPc,         \* "input" -> "next" -> "counted"
    subscriptions, \* the subscriptions table: id -> row
    sqliteSequence,\* the highest id AUTOINCREMENT has handed out
    clockDay,      \* the wall clock's date
    clockSlot,     \* the wall clock's minute, an index into DayMinutes
    loopPc,        \* run_notification_loop: "try", "sleep" or "except"
    sent,          \* the messages the notifier has delivered
    tickDaysLeft,  \* the days_left values the last tick computed
    tickSubs,      \* check_and_send_notifications: the rows its for loop has left
    tickUsers,     \* check_and_send_daily_summaries: the user ids its for loop has left
    tickLog,       \* the bot.send_message calls of the tick, in order
    user_states,   \* SubscriptionBot.user_states: user id -> data collected so far
    convAdd,       \* add_subscription_command conversation: user id -> state
    convEdit,      \* edit_subscription_handler conversation: user id -> state
    user_data,     \* context.user_data: user id -> edit_subscription_id, edit_field
    flowTrace,     \* history: the inputs accepted since the add conversation was entered
    payment_history, \* the payment_history table: id -> row
    dateText,      \* date_string handed to parse_date_flexible
    dateZeroPad,   \* whether the platform's strftime pads %Y to four digits
    dateStored,    \* what parse_date_flexible returned (NoText before the call)
    datePc,        \* "input" -> "parsed"
    fieldName,     \* the field a text is offered for
    fieldText,     \* the text offered
    fieldIntake,   \* what the add conversation does with the text
    fieldEdit,     \* what the edit conversation does with the text
    fieldPc,       \* the handlers that have run: a subset of {"intake", "edit"}
    analytics,     \* the figures of the last /analytics reply (NoReport before one)
    botToken,      \* whether config.BOT_TOKEN is a non-empty string
    runPc,         \* SubscriptionBotApp.run: "main", "setup", "polling", "running", "aborted"
    updateResult   \* what the last direct call of update_subscription returned or raised

calVars == <<calStart, calPeriod, calToday, calNext, calDaysLeft, calCount, calTotal, calPc>>

\* The for loops of one tick
tickVars == <<tickSubs, tickUsers, tickLog>>

\* The conversation layer
convVars == <<user_states, convAdd, convEdit, user_data, flowTrace>>

schedVars == <<subscriptions, sqliteSequence, clockDay, clockSlot, loopPc, sent, tickDaysLeft>>

\* The harnesses of parse_date_flexible and of the per-field rules
dateVars == <<dateText, dateZeroPad, dateStored, datePc>>

fieldVars == <<fieldName, fieldText, fieldIntake, fieldEdit, fieldPc>>

\* What the harnesses and the analytics reply leave behind
runVars == <<botToken, runPc>>

callVars == <<updateResult>>

fnVars == <<dateVars, fieldVars, analytics, runVars, callVars>>

botVars == <<schedVars, tickVars, convVars, payment_history>>

vars == <<calVars, botVars, fnVars>>

-----------------------------------------------------------------------------
(* Bounds of the model *)

\* The clock of the calendar harness runs over FirstYear .. FirstYear + MaxYears.
MaxYears == 2

\* The first year of the clock's range.
FirstYear == 2023

\* The engine is called at most this many days before the start date.
MaxDaysBefore == 40

\* Rows in the subscriptions table.
MaxSubs == 2

\* Days the scheduler's clock runs.
MaxClockDays == 3

LastYear == FirstYear + MaxYears

-----------------------------------------------------------------------------
(* datetime.date *)

Date(y, m, d) == [year |-> y, month |-> m, day |-> d]

\* The value a date-valued variable holds before any date was computed.
NoDate == Date(0, 0, 0)

\* The outcome of a datetime call that raises ValueError.
ValueError == Date(0, 0, -1)

IsLeap(y) == (y % 4 = 0) /\ ((y % 100 # 0) \/ (y % 400 = 0))

\* calendar.monthrange(y, m)[1]
DaysInMonth(y, m) ==
    CASE m = 2 -> IF IsLeap(y) THEN 29 ELSE 28
      [] m \in {4, 6, 9, 11} -> 30
      [] OTHER -> 31

IsValidDate(d) ==
    /\ d.year >= 1
    /\ d.month \in 1..12
    /\ d.day >= 1
    /\ d.day <= DaysInMonth(d.year, d.month)

DaysBeforeYear(y) ==
    LET p == y - 1 IN p * 365 + (p \div 4) - (p \div 100) + (p \div 400)

DaysBeforeMonth(y, m) ==
    <<0, 31, 59, 90, 120, 151, 181, 212, 243, 273, 304, 334>>[m]
        + (IF m > 2 /\ IsLeap(y) THEN 1 ELSE 0)

\* date.toordinal()
ToOrdinal(d) == DaysBeforeYear(d.year) + DaysBeforeMonth(d.year, d.month) + d.day

\* date.fromordinal(n), CPython's _ord2ymd
FromOrdinal(n) ==
    LET n0    == n - 1
        n400  == n0 \div 146097
        r400  == n0 % 146097
        n100  == r400 \div 36524
        r100  == r400 % 36524
        n4    == r100 \div 1461
        r4    == r100 % 1461
        n1    == r4 \div 365
        r1    == r4 % 365
        year  == n400 * 400 + 1 + n100 * 100 + n4 * 4 + n1
        leap  == n1 = 3 /\ (n4 # 24 \/ n100 = 3)
        mEst  == (r1 + 50) \div 32
        pEst  == <<0, 31, 59, 90, 120, 151, 181, 212, 243, 273, 304, 334>>[mEst]
                    + (IF mEst > 2 /\ leap THEN 1 ELSE 0)
        month == IF pEst > r1 THEN mEst - 1 ELSE mEst
        prec  == <<0, 31, 59, 90, 120, 151, 181, 212, 243, 273, 304, 334>>[month]
                    + (IF month > 2 /\ leap THEN 1 ELSE 0)
    IN  IF n1 = 4 \/ n100 = 4
          THEN Date(year - 1, 12, 31)
          ELSE Date(year, month, r1 - prec + 1)

\* (a - b).days
DaysBetween(a, b) == ToOrdinal(a) - ToOrdinal(b)

\* d + datetime.timedelta(days=n)
AddDays(d, n) == FromOrdinal(ToOrdinal(d) + n)

\* a < b and a <= b on dates: (year, month, day) compared lexicographically
DateLT(a, b) ==
    \/ a.year < b.year
    \/ a.year = b.year /\ a.month < b.month
    \/ a.year = b.year /\ a.month = b.month /\ a.day < b.day

\* DateLE with a fault: the correction test written with < instead of <=.
DateLEStrict(a, b) == DateLT(a, b)

DateLE(a, b) == a = b \/ DateLT(a, b)

\* d.replace(year=y, month=m, day=dd): ValueError when the day does not exist
DateReplace(y, m, dd) ==
    IF IsValidDate(Date(y, m, dd)) THEN Date(y, m, dd) ELSE ValueError

-----------------------------------------------------------------------------
(* utils.py: calculate_next_payment_date *)

Periods == {"daily", "weekly", "monthly", "quarterly", "yearly"}

\* ReplaceMonthClamped with a fault: the ValueError of a missing day is not caught.
ReplaceMonthUnclamped(start, y, m) == DateReplace(y, m, start.day)

\* try: start.replace(year=y, month=m)
\* except ValueError: start.replace(year=y, month=m, day=monthrange(y, m)[1])
ReplaceMonthClamped(start, y, m) ==
    LET r == DateReplace(y, m, start.day)
    IN  IF r = ValueError THEN DateReplace(y, m, DaysInMonth(y, m)) ELSE r

\* ReplaceYearClamped with a fault: a missing 29 February moved to 1 March.
ReplaceYearMarchFirst(start, y) ==
    LET r == DateReplace(y, start.month, start.day)
    IN  IF r = ValueError THEN DateReplace(y, 3, 1) ELSE r

\* try: start.replace(year=y)
\* except ValueError: start.replace(year=y, day=28)
ReplaceYearClamped(start, y) ==
    LET r == DateReplace(y, start.month, start.day)
    IN  IF r = ValueError THEN DateReplace(y, start.month, 28) ELSE r

\* (today.year - start.year) * 12 + (today.month - start.month)
MonthsBetween(start, today) ==
    (today.year - start.year) * 12 + (today.month - start.month)

NextDaily(start, today) ==
    LET n == DaysBetween(today, start)
        np == AddDays(start, n + 1)
    IN  IF DateLE(np, today) THEN AddDays(np, 1) ELSE np

\* NextWeekly with a fault: the candidate built one step too far.
NextWeeklySkips(start, today) ==
    LET n == DaysBetween(today, start) \div 7
        np == AddDays(start, 7 * (n + 2))
    IN  IF DateLE(np, today) THEN AddDays(np, 7) ELSE np

NextWeekly(start, today) ==
    LET n == DaysBetween(today, start) \div 7
        np == AddDays(start, 7 * (n + 1))
    IN  IF DateLE(np, today) THEN AddDays(np, 7) ELSE np

\* NextMonthly with a fault: a payment date equal to today is not moved on.
NextMonthlyInclusive(start, today) ==
    LET months == MonthsBetween(start, today)
        nm0 == start.month + months
        ny  == start.year + ((nm0 - 1) \div 12)
        nm  == ((nm0 - 1) % 12) + 1
    IN  ReplaceMonthClamped(start, ny, nm)

NextMonthly(start, today) ==
    LET months == MonthsBetween(start, today)
        nm0 == start.month + months
        ny  == start.year + ((nm0 - 1) \div 12)
        nm  == ((nm0 - 1) % 12) + 1
        np  == ReplaceMonthClamped(start, ny, nm)
        nm2 == IF nm + 1 > 12 THEN 1 ELSE nm + 1
        ny2 == IF nm + 1 > 12 THEN ny + 1 ELSE ny
    IN  IF np # ValueError /\ DateLE(np, today)
          THEN ReplaceMonthClamped(start, ny2, nm2)
          ELSE np

\* The quarterly correction loop: while next_payment <= today, step three months.
\* The result carries the number of iterations the loop made.
RECURSIVE QuarterlyLoop(_, _, _, _, _, _)
QuarterlyLoop(start, today, ny, nm, np, iters) ==
    IF np # ValueError /\ DateLE(np, today)
      THEN LET nm2 == IF nm + 3 > 12 THEN nm + 3 - 12 ELSE nm + 3
               ny2 == IF nm + 3 > 12 THEN ny + 1 ELSE ny
           IN  QuarterlyLoop(start, today, ny2, nm2,
                             ReplaceMonthClamped(start, ny2, nm2), iters + 1)
      ELSE [date |-> np, iters |-> iters]

\* NextQuarterly with a fault: the month estimate not rounded down to whole quarters.
NextQuarterlyMonthStep(start, today) ==
    LET months == MonthsBetween(start, today)
        nm0 == start.month + months
        ny  == start.year + ((nm0 - 1) \div 12)
        nm  == ((nm0 - 1) % 12) + 1
    IN  QuarterlyLoop(start, today, ny, nm, ReplaceMonthClamped(start, ny, nm), 0)

\* NextQuarterly with a fault: no estimate, the loop steps from the start date.
NextQuarterlyFromStart(start, today) ==
    QuarterlyLoop(start, today, start.year, start.month, start, 0)

NextQuarterly(start, today) ==
    LET months == (MonthsBetween(start, today) \div 3) * 3
        nm0 == start.month + months
        ny  == start.year + ((nm0 - 1) \div 12)
        nm  == ((nm0 - 1) % 12) + 1
    IN  QuarterlyLoop(start, today, ny, nm, ReplaceMonthClamped(start, ny, nm), 0)

NextYearly(start, today) ==
    LET years == today.year - start.year
        ny == start.year + years
        np == ReplaceYearClamped(start, ny)
    IN  IF np # ValueError /\ DateLE(np, today)
          THEN ReplaceYearClamped(start, ny + 1)
          ELSE np

\* The candidate calculate_next_payment_date builds from the estimated number
\* of whole steps, before its test next_payment <= today
Candidate(start, period, today) ==
    CASE period = "daily"     -> AddDays(start, DaysBetween(today, start) + 1)
      [] period = "weekly"    -> AddDays(start, 7 * ((DaysBetween(today, start) \div 7) + 1))
      [] period = "monthly"   ->
            LET nm0 == start.month + MonthsBetween(start, today)
            IN  ReplaceMonthClamped(start, start.year + ((nm0 - 1) \div 12),
                                    ((nm0 - 1) % 12) + 1)
      [] period = "quarterly" ->
            LET nm0 == start.month + (MonthsBetween(start, today) \div 3) * 3
            IN  ReplaceMonthClamped(start, start.year + ((nm0 - 1) \div 12),
                                    ((nm0 - 1) % 12) + 1)
      [] period = "yearly"    -> ReplaceYearClamped(start, today.year)
      [] OTHER                -> start

\* How many times calculate_next_payment_date steps on from the candidate:
\* the body of an if runs once or not at all, the quarterly while loop as
\* often as its test holds
CorrectionSteps(start, period, today) ==
    IF period = "quarterly" THEN NextQuarterly(start, today).iters
    ELSE IF /\ period \in Periods
            /\ Candidate(start, period, today) # ValueError
            /\ DateLE(Candidate(start, period, today), today)
      THEN 1
      ELSE 0

\* calculate_next_payment_date with a fault: the today < start test left out.
CalculateNextWithoutFutureGuard(start, period, today) ==
    CASE period = "daily"     -> NextDaily(start, today)
      [] period = "weekly"    -> NextWeekly(start, today)
      [] period = "monthly"   -> NextMonthly(start, today)
      [] period = "quarterly" -> NextQuarterly(start, today).date
      [] period = "yearly"    -> NextYearly(start, today)
      [] OTHER                -> start

\* calculate_next_payment_date(start_date, period), with today the value that
\* datetime.date.today() returns inside the call.
calculate_next_payment_date(start, period, today) ==
    IF DateLT(today, start) THEN start
    ELSE CASE period = "daily"     -> NextDaily(start, today)
           [] period = "weekly"    -> NextWeekly(start, today)
           [] period = "monthly"   -> NextMonthly(start, today)
           [] period = "quarterly" -> NextQuarterly(start, today).date
           [] period = "yearly"    -> NextYearly(start, today)
           [] OTHER                -> start

\* days_until_payment(next_payment_date), today read inside the call
days_until_payment(next_payment_date, today) ==
    DaysBetween(next_payment_date, today)

-----------------------------------------------------------------------------
(* database.py: the elapsed-period count of get_total_expenses_active_periods *)

\* ElapsedPeriods with a fault: rows with end < start are not skipped.
ElapsedPeriodsWithoutSkip(start, period, end) ==
    CASE period = "daily"  -> DaysBetween(end, start) + 1
      [] period = "weekly" -> (DaysBetween(end, start) \div 7) + 1
      [] period = "monthly" ->
           MonthsBetween(start, end) + (IF end.day >= start.day THEN 1 ELSE 0)
      [] period = "quarterly" ->
           (MonthsBetween(start, end) \div 3)
               + (IF end.day >= start.day THEN 1 ELSE 0)
      [] period = "yearly" ->
           (end.year - start.year)
               + (IF \/ end.month > start.month
                     \/ end.month = start.month /\ end.day >= start.day
                  THEN 1 ELSE 0)
      [] OTHER -> 0

\* The count n computed for one subscription row; a row with end < start is
\* skipped (continue) and contributes no period.
ElapsedPeriods(start, period, end) ==
    IF DateLT(end, start) THEN 0
    ELSE CASE period = "daily"  -> DaysBetween(end, start) + 1
           [] period = "weekly" -> (DaysBetween(end, start) \div 7) + 1
           [] period = "monthly" ->
                MonthsBetween(start, end) + (IF end.day >= start.day THEN 1 ELSE 0)
           [] period = "quarterly" ->
                (MonthsBetween(start, end) \div 3)
                    + (IF end.day >= start.day THEN 1 ELSE 0)
           [] period = "yearly" ->
                (end.year - start.year)
                    + (IF \/ end.month > start.month
                          \/ end.month = start.month /\ end.day >= start.day
                       THEN 1 ELSE 0)
           [] OTHER -> 0

\* total += price * n, applied only when n > 0
PeriodExpense(price, start, period, end) ==
    LET n == ElapsedPeriods(start, period, end)
    IN  IF n > 0 THEN price * n ELSE 0

-----------------------------------------------------------------------------
(* config.py *)

\* NOTIFICATION_DAYS_BEFORE
NOTIFICATION_DAYS_BEFORE == 1

\* SUBSCRIPTION_STATUSES
Statuses == {"active", "paused", "cancelled"}

-----------------------------------------------------------------------------
(* database.py: class Database *)

\* DatabaseMethods with a fault: the time query defined as well.
DatabaseMethodsWithTimeQuery ==
    {"init_database", "add_subscription", "get_user_subscriptions",
     "get_subscription", "update_subscription", "delete_subscription",
     "get_subscriptions_for_notification", "get_total_expenses",
     "get_expenses_by_category", "get_total_expenses_all_time",
     "get_total_expenses_active_periods",
     "get_subscriptions_for_time_notification"}

\* The methods class Database defines.
DatabaseMethods ==
    {"init_database", "add_subscription", "get_user_subscriptions",
     "get_subscription", "update_subscription", "delete_subscription",
     "get_subscriptions_for_notification", "get_total_expenses",
     "get_expenses_by_category", "get_total_expenses_all_time",
     "get_total_expenses_active_periods"}

\* The columns of the subscriptions table created by init_database.
SubscriptionColumns ==
    {"id", "user_id", "name", "price", "comment", "start_date", "period",
     "status", "notifications_enabled", "created_at"}

EmptyTable == [i \in {} |-> 0]

\* get_subscription(id) is not None
RowExists(table, id) == id \in DOMAIN table

\* update_subscription with a fault: INSERT OR REPLACE in place of UPDATE, so
\* that a missing id gets a row holding the value and the column defaults
UpdateSubscriptionUpsert(table, id, column, value) ==
    IF RowExists(table, id)
      THEN [table EXCEPT ![id] = [@ EXCEPT ![column] = value]]
      ELSE [i \in (DOMAIN table) \cup {id} |->
              IF i = id
                THEN [[user_id |-> 0, name |-> "", price |-> 0, comment |-> "",
                       start_date |-> [year |-> 0, month |-> 0, day |-> 0],
                       period |-> "other", status |-> "active",
                       notifications_enabled |-> TRUE] EXCEPT ![column] = value]
                ELSE table[i]]

\* update_subscription(id, column=value): UPDATE ... WHERE id = ?
update_subscription(table, id, column, value) ==
    IF RowExists(table, id)
      THEN [table EXCEPT ![id] = [@ EXCEPT ![column] = value]]
      ELSE table

\* delete_subscription(id) as a soft delete: the row stays, marked cancelled
DeleteMarksCancelled(table, id) ==
    IF RowExists(table, id)
      THEN [table EXCEPT ![id] = [@ EXCEPT !["status"] = "cancelled"]]
      ELSE table

\* delete_subscription(id): DELETE FROM subscriptions WHERE id = ?
delete_subscription(table, id) ==
    [i \in (DOMAIN table) \ {id} |-> table[i]]

\* get_subscriptions_for_notification(): ids of the rows with
\* status = 'active' AND notifications_enabled = 1
get_subscriptions_for_notification(table) ==
    {i \in DOMAIN table :
        table[i].status = "active" /\ table[i].notifications_enabled}

\* get_user_subscriptions(user_id, status): ids of the user's rows with the status
get_user_subscriptions(table, user, status) ==
    {i \in DOMAIN table : table[i].user_id = user /\ table[i].status = status}

\* SUM(price) over the rows ids; SQLite's SUM of no rows is NULL, which
\* result[0] or 0.0 turns into 0.0
RECURSIVE SumPrice(_, _)
SumPrice(table, ids) ==
    IF ids = {} THEN 0
    ELSE LET i == CHOOSE k \in ids : TRUE
         IN  table[i].price + SumPrice(table, ids \ {i})

\* get_total_expenses with the status test left out of the three WHERE clauses
GetTotalExpensesAnyStatus(table, user, period) ==
    SumPrice(table,
        IF period \in {"monthly", "yearly"}
          THEN {i \in DOMAIN table :
                   table[i].user_id = user /\ table[i].period = period}
          ELSE {i \in DOMAIN table : table[i].user_id = user})

\* get_total_expenses(user_id, period): one SELECT SUM(price) per branch
get_total_expenses(table, user, period) ==
    IF period = "monthly"
      THEN SumPrice(table, {i \in DOMAIN table :
               /\ table[i].user_id = user
               /\ table[i].status = "active"
               /\ table[i].period = "monthly"})
    ELSE IF period = "yearly"
      THEN SumPrice(table, {i \in DOMAIN table :
               /\ table[i].user_id = user
               /\ table[i].status = "active"
               /\ table[i].period = "yearly"})
    ELSE SumPrice(table, {i \in DOMAIN table :
               /\ table[i].user_id = user
               /\ table[i].status = "active"})

\* get_expenses_by_category(user_id): SELECT period, SUM(price) ... WHERE
\* user_id = ? AND status = 'active' GROUP BY period
get_expenses_by_category(table, user) ==
    LET rows == {i \in DOMAIN table :
                    table[i].user_id = user /\ table[i].status = "active"}
    IN  [p \in {table[i].period : i \in rows} |->
            SumPrice(table, {i \in rows : table[i].period = p})]

-----------------------------------------------------------------------------
(* notifications.py: class NotificationManager *)

\* The minutes of a day the clock visits, in order; every other minute of the
\* day is a minute at which no notification time matches, like the first one.
DayMinutes == <<"08:59", "09:00", "23:59">>

\* datetime.datetime.now().strftime('%H:%M')
Now == DayMinutes[clockSlot]

\* What a second call of datetime.date.today() within the same tick can
\* return: the clock's date, or the next one when midnight passes in between.
DateReads ==
    IF Now = "23:59" THEN {clockDay, AddDays(clockDay, 1)} ELSE {clockDay}

\* The method check_and_send_notifications calls on the Database object.
TimeQueryMethod == "get_subscriptions_for_time_notification"

\* sub.get('notification_time', '09:00') on a row of the table
NotificationTimeOf(row) ==
    IF "notification_time" \in DOMAIN row THEN row.notification_time ELSE "09:00"

\* What the time query is to return: ids of the active rows with notifications
\* enabled whose notification time is t.
SubscriptionsForTime(table, t) ==
    {i \in get_subscriptions_for_notification(table) :
        NotificationTimeOf(table[i]) = t}

\* days_left of a row: days_until_payment(calculate_next_payment_date(...)),
\* today the date the first call reads and today2 the date the second reads
DaysLeft(row, today, today2) ==
    days_until_payment(
        calculate_next_payment_date(row.start_date, row.period, today), today2)

Message(kind, user, id, day, time) ==
    [kind |-> kind, user_id |-> user, sub_id |-> id, day |-> day, time |-> time]

\* The branch the loop body of check_and_send_notifications takes for a row
NotificationKind(days_left) ==
    IF days_left = NOTIFICATION_DAYS_BEFORE THEN "PaymentReminder"
    ELSE IF days_left = 0 THEN "PaymentDueToday"
    ELSE "none"

\* The loop body of check_and_send_notifications over the rows the query gave:
\* a reminder NOTIFICATION_DAYS_BEFORE days ahead, else a notice on the day.
NotificationsFor(table, ids, today, today2, time) ==
    {Message(NotificationKind(DaysLeft(table[i], today, today2)),
             table[i].user_id, i, today, time) :
        i \in {j \in ids :
                  NotificationKind(DaysLeft(table[j], today, today2)) # "none"}}

\* check_and_send_daily_summaries with send_daily_summary: one summary for each
\* distinct user_id of the rows matching the time, when the user has active rows.
DailySummariesFor(table, today, time) ==
    {Message("DailySummary", u, 0, today, time) :
        u \in {table[i].user_id : i \in SubscriptionsForTime(table, time)}}

-----------------------------------------------------------------------------
(* The bot: repository, wall clock, notification loop, id-bearing buttons *)

Users == {101, 102}

\* The first day of the scheduler's clock.
ClockFirstDay == Date(2024, 2, 28)

ClockLastDay == AddDays(ClockFirstDay, MaxClockDays - 1)

\* Rows as add_subscription inserts them: status and notifications_enabled
\* take the column defaults.
NewRows ==
    [user_id : Users, name : {"Netflix"}, price : {599}, comment : {""},
     start_date : {Date(2024, 1, 31), Date(2024, 3, 1)},
     period : {"daily", "monthly"},
     status : {"active"}, notifications_enabled : {TRUE}]

\* Rows the table can hold: the inserted ones, and one whose period was
\* overwritten with free text by edit_field_value.
StoredRows ==
    NewRows \cup
    {[user_id |-> 101, name |-> "Netflix", price |-> 599, comment |-> "",
      start_date |-> Date(2024, 3, 1), period |-> "other",
      status |-> "active", notifications_enabled |-> TRUE]}

\* Tables holding rows 1 .. n, n <= MaxSubs
InitialTables == UNION {[1..n -> StoredRows] : n \in 0..MaxSubs}

\* The calendar harness at rest
CalIdle ==
    /\ calStart = NoDate
    /\ calPeriod = "other"
    /\ calToday = NoDate
    /\ calNext = NoDate
    /\ calDaysLeft = 0
    /\ calCount = 0
    /\ calTotal = 0
    /\ calPc = "idle"

\* The text of a value that is None
NoText == <<"None">>

\* No /analytics reply yet
NoReport ==
    [user |-> 0, shown |-> FALSE, monthly |-> 0, yearly |-> 0, total |-> 0,
     by_category |-> [p \in {} |-> 0]]

\* run() has started the updater and the notification task
RunIdle ==
    /\ botToken = TRUE
    /\ runPc = "running"

\* The harnesses of the pure functions at rest
FnIdle ==
    /\ RunIdle
    /\ analytics = NoReport
    /\ updateResult = "None"
    /\ dateText = <<>>
    /\ dateZeroPad = TRUE
    /\ dateStored = NoText
    /\ datePc = "idle"
    /\ fieldName = "None"
    /\ fieldText = ""
    /\ fieldIntake = [accepted |-> FALSE]
    /\ fieldEdit = [accepted |-> FALSE]
    /\ fieldPc = {}

\* No tick's for loop in progress
TickIdle ==
    /\ tickSubs = <<>>
    /\ tickUsers = <<>>
    /\ tickLog = <<>>

\* SubscriptionBot.__init__ and the ConversationHandlers as constructed:
\* no user state, no conversation, empty user_data
ConvIdle ==
    /\ user_states = EmptyTable
    /\ convAdd = [u \in Users |-> "END"]
    /\ convEdit = [u \in Users |-> "END"]
    /\ user_data = [u \in Users |-> [edit_subscription_id |-> 0, edit_field |-> "None"]]
    /\ flowTrace = [u \in Users |-> <<>>]

\* The bot at rest
BotIdle ==
    /\ subscriptions = EmptyTable
    /\ sqliteSequence = 0
    /\ clockDay = ClockFirstDay
    /\ clockSlot = 1
    /\ loopPc = "idle"
    /\ sent = {}
    /\ tickDaysLeft = {}
    /\ payment_history = EmptyTable
    /\ TickIdle
    /\ ConvIdle

Init ==
    /\ CalIdle
    /\ FnIdle
    /\ TickIdle
    /\ ConvIdle
    /\ payment_history = EmptyTable
    /\ subscriptions \in InitialTables
    /\ sqliteSequence = Cardinality(DOMAIN subscriptions)
    /\ clockDay = ClockFirstDay
    /\ clockSlot = 1
    /\ loopPc = "try"
    /\ sent = {}
    /\ tickDaysLeft = {}

\* The pcs of run_notification_loop at which await asyncio.sleep(60) runs:
\* the end of the try block, and the except clause.
SleepsAfterTryOnly == {"sleep"}

SleepsAfter == {"sleep", "except"}

\* NotificationLoopTry with a fault: line 21 calls the query class Database
\* has, get_subscriptions_for_notification, which does not filter by time.
NotificationLoopTryUnfiltered ==
    /\ loopPc = "try"
    /\ \E today2 \in DateReads :
         /\ sent' = sent \cup NotificationsFor(subscriptions,
                                 get_subscriptions_for_notification(subscriptions),
                                 clockDay, today2, Now)
         /\ tickDaysLeft' = {DaysLeft(subscriptions[i], clockDay, today2) :
                                i \in get_subscriptions_for_notification(subscriptions)}
    /\ loopPc' = "except"
    /\ UNCHANGED <<subscriptions, sqliteSequence, clockDay, clockSlot,
                   calVars, fnVars, payment_history, tickVars, convVars>>

\* NotificationLoopTry with a fault: each check in a try block of its own, so
\* that the summaries are sent after the reminder check has raised.
NotificationLoopTryEachGuarded ==
    /\ loopPc = "try"
    /\ sent' = sent \cup DailySummariesFor(subscriptions, clockDay, Now)
    /\ tickDaysLeft' = {}
    /\ loopPc' = "sleep"
    /\ UNCHANGED <<subscriptions, sqliteSequence, clockDay, clockSlot,
                   calVars, fnVars, payment_history, tickVars, convVars>>

\* run_notification_loop, the try block: check_and_send_notifications, then
\* check_and_send_daily_summaries.  A call of a method the Database object
\* does not have raises AttributeError, a query naming a column the table
\* does not have raises sqlite3.OperationalError; either ends the try block
\* in the except clause.
NotificationLoopTry ==
    /\ loopPc = "try"
    /\ IF TimeQueryMethod \notin DatabaseMethods
         THEN /\ sent' = sent
              /\ tickDaysLeft' = {}
              /\ loopPc' = "except"
         ELSE \E today2 \in DateReads :
              LET ids == SubscriptionsForTime(subscriptions, Now)
                  notices == NotificationsFor(subscriptions, ids, clockDay, today2, Now)
              IN  /\ tickDaysLeft' = {DaysLeft(subscriptions[i], clockDay, today2) :
                                         i \in ids}
                  /\ IF "notification_time" \notin SubscriptionColumns
                       THEN /\ sent' = sent \cup notices
                            /\ loopPc' = "except"
                       ELSE /\ sent' = sent \cup notices
                                  \cup DailySummariesFor(subscriptions, clockDay, Now)
                            /\ loopPc' = "sleep"
    /\ UNCHANGED <<subscriptions, sqliteSequence, clockDay, clockSlot,
                   calVars, fnVars, payment_history, tickVars, convVars>>

\* The clock stands at the last minute the model lets it reach.
ClockAtEnd == clockDay = ClockLastDay /\ clockSlot = Len(DayMinutes)

\* await asyncio.sleep(60), after the try block or in the except clause: the
\* clock moves to its next minute and the loop starts over.
NotificationLoopSleep ==
    /\ loopPc \in SleepsAfter
    /\ IF clockSlot < Len(DayMinutes)
         THEN clockSlot' = clockSlot + 1 /\ clockDay' = clockDay
         ELSE /\ clockDay # ClockLastDay
              /\ clockSlot' = 1
              /\ clockDay' = AddDays(clockDay, 1)
    /\ loopPc' = "try"
    /\ UNCHANGED <<subscriptions, sqliteSequence, sent, tickDaysLeft,
                   calVars, fnVars, payment_history, tickVars, convVars>>

\* toggle_notifications: button toggle_notifications_<id>
ToggleNotifications(id) ==
    /\ IF RowExists(subscriptions, id)
         THEN subscriptions' = update_subscription(subscriptions, id,
                  "notifications_enabled", ~subscriptions[id].notifications_enabled)
         ELSE UNCHANGED subscriptions
    /\ UNCHANGED <<sqliteSequence, clockDay, clockSlot, loopPc, sent, tickDaysLeft,
                   calVars, fnVars, payment_history, tickVars, convVars>>

\* delete_subscription: button delete_<id>
DeleteSubscription(id) ==
    /\ IF RowExists(subscriptions, id)
         THEN subscriptions' = delete_subscription(subscriptions, id)
         ELSE UNCHANGED subscriptions
    /\ UNCHANGED <<sqliteSequence, clockDay, clockSlot, loopPc, sent, tickDaysLeft,
                   calVars, fnVars, payment_history, tickVars, convVars>>

\* set_status_inactive: button set_status_inactive_<id>_<status>
SetStatusInactive(id, status) ==
    /\ subscriptions' = update_subscription(subscriptions, id, "status", status)
    /\ UNCHANGED <<sqliteSequence, clockDay, clockSlot, loopPc, sent, tickDaysLeft,
                   calVars, fnVars, payment_history, tickVars, convVars>>

\* set_notification_time: button set_notification_time_<id>_<HH:MM>.  The
\* UPDATE names the column notification_time; on a table without it the
\* statement raises sqlite3.OperationalError and the row keeps its values.
SetNotificationTime(id, time) ==
    /\ IF RowExists(subscriptions, id) /\ "notification_time" \in SubscriptionColumns
         THEN subscriptions' =
                  [subscriptions EXCEPT ![id] =
                      [k \in DOMAIN @ \cup {"notification_time"} |->
                          IF k = "notification_time" THEN time ELSE @[k]]]
         ELSE UNCHANGED subscriptions
    /\ UNCHANGED <<sqliteSequence, clockDay, clockSlot, loopPc, sent, tickDaysLeft,
                   calVars, fnVars, payment_history, tickVars, convVars>>

\* Two of the NOTIFICATION_TIMES offered by change_notification_time_menu:
\* the default one and another
NotificationTimes == {"09:00", "21:00"}

Next ==
    \/ NotificationLoopTry
    \/ NotificationLoopSleep
    \/ \E id \in 1..MaxSubs : ToggleNotifications(id)
    \/ \E id \in 1..MaxSubs : DeleteSubscription(id)
    \/ \E id \in 1..MaxSubs, status \in Statuses : SetStatusInactive(id, status)
    \/ \E id \in 1..MaxSubs, time \in NotificationTimes : SetNotificationTime(id, time)

Spec == Init /\ [][Next]_vars

\* The event loop resumes the notification task when its sleep is over, and
\* runs it when it is ready.
FairSpec == Spec /\ WF_vars(NotificationLoopSleep) /\ WF_vars(NotificationLoopTry)

-----------------------------------------------------------------------------
(* One tick's for loops applied to given query results *)

\* The lists without repetition over a set: the orders in which a query can
\* return its rows.
Orderings(S) ==
    {q \in UNION {[1..n -> S] : n \in 0..Cardinality(S)} :
        \A i, j \in DOMAIN q : i # j => q[i] # q[j]}

\* The days the scheduler's clock visits
ClockRange == {AddDays(ClockFirstDay, k) : k \in 0..(MaxClockDays - 1)}

\* send_* with a fault: bot.send_message not wrapped in try / except, so the
\* exception leaves the for loop and ends the tick in the loop's except clause.
DeliveryFailurePropagates(pc) == "except"

\* Where the tick stands after bot.send_message raised inside send_*: the
\* except clause of send_* prints and the coroutine returns to its for loop.
DeliveryFailure(pc) == pc

\* The tick at the top of the for loop of check_and_send_notifications, the
\* query's rows given; the user ids check_and_send_daily_summaries will loop
\* over given as well.
TickInit ==
    /\ CalIdle
    /\ FnIdle
    /\ ConvIdle
    /\ payment_history = EmptyTable
    /\ subscriptions \in InitialTables
    /\ sqliteSequence = Cardinality(DOMAIN subscriptions)
    /\ clockDay \in ClockRange
    /\ clockSlot = 2
    /\ loopPc = "notifications"
    /\ sent = {}
    /\ tickDaysLeft = {}
    /\ tickSubs \in Orderings(get_subscriptions_for_notification(subscriptions))
    /\ tickUsers \in Orderings(Users)
    /\ tickLog = <<>>

\* await self.bot.send_message(...) inside send_*: delivered, or an exception
\* caught by the except clause of send_*.
SendMessage(msg) ==
    \E delivered \in BOOLEAN :
        /\ tickLog' = Append(tickLog, [message |-> msg, delivered |-> delivered])
        /\ sent' = IF delivered THEN sent \cup {msg} ELSE sent
        /\ loopPc' = IF delivered THEN loopPc ELSE DeliveryFailure(loopPc)

\* check_and_send_notifications: one pass of the for loop's body
TickNotifyNext ==
    /\ loopPc = "notifications"
    /\ tickSubs # <<>>
    /\ LET i == Head(tickSubs)
           row == subscriptions[i]
       IN  \E today2 \in DateReads :
             LET days_left == DaysLeft(row, clockDay, today2)
                 kind == NotificationKind(days_left)
             IN  /\ tickDaysLeft' = tickDaysLeft \cup {days_left}
                 /\ IF kind = "none"
                      THEN UNCHANGED <<sent, tickLog, loopPc>>
                      ELSE SendMessage(Message(kind, row.user_id, i, clockDay, Now))
    /\ tickSubs' = Tail(tickSubs)
    /\ UNCHANGED <<subscriptions, sqliteSequence, clockDay, clockSlot, tickUsers,
                   calVars, fnVars, payment_history, convVars>>

\* check_and_send_notifications returns; check_and_send_daily_summaries starts
TickNotifyDone ==
    /\ loopPc = "notifications"
    /\ tickSubs = <<>>
    /\ loopPc' = "summaries"
    /\ UNCHANGED <<subscriptions, sqliteSequence, clockDay, clockSlot, sent,
                   tickDaysLeft, tickVars, calVars, fnVars, payment_history, convVars>>

\* check_and_send_daily_summaries: one pass of the for loop's body,
\* send_daily_summary(user_id), which returns at once for a user without
\* active rows
TickSummaryNext ==
    /\ loopPc = "summaries"
    /\ tickUsers # <<>>
    /\ LET u == Head(tickUsers)
       IN  IF get_user_subscriptions(subscriptions, u, "active") = {}
             THEN UNCHANGED <<sent, tickLog, loopPc>>
             ELSE SendMessage(Message("DailySummary", u, 0, clockDay, Now))
    /\ tickUsers' = Tail(tickUsers)
    /\ UNCHANGED <<subscriptions, sqliteSequence, clockDay, clockSlot, tickSubs,
                   tickDaysLeft, calVars, fnVars, payment_history, convVars>>

\* check_and_send_daily_summaries returns; the try block goes to sleep
TickSummariesDone ==
    /\ loopPc = "summaries"
    /\ tickUsers = <<>>
    /\ loopPc' = "sleep"
    /\ UNCHANGED <<subscriptions, sqliteSequence, clockDay, clockSlot, sent,
                   tickDaysLeft, tickVars, calVars, fnVars, payment_history, convVars>>

TickNext == TickNotifyNext \/ TickNotifyDone \/ TickSummaryNext \/ TickSummariesDone

TickSpec == TickInit /\ [][TickNext]_vars

\* The coroutine of check_and_send_notifications has been suspended in an
\* await of bot.send_message: the event loop ran the handlers of the updates
\* that arrived meanwhile.
\* The loop reads user_id, start_date and period of the dicts its query
\* returned; the buttons below leave these three columns of a row alone.
Awaited == loopPc = "notifications" /\ tickLog # <<>>

\* One tick with the toggle and status buttons pressed during its sends
RaceNext ==
    \/ TickNext
    \/ Awaited /\ \E id \in 1..MaxSubs : ToggleNotifications(id)
    \/ Awaited /\ \E id \in 1..MaxSubs : SetStatusInactive(id, "paused")

RaceSpec == TickInit /\ [][RaceNext]_vars

-----------------------------------------------------------------------------
(* Python str, float() and strptime on the texts users send *)

\* The texts of the model
KnownTexts ==
    {"N", "N ", "Nf", "Hbo", "599", "-5", "abc", "-", "1.3.24", "31.02.2024", "2024-03-01",
     "Netflix", "01.06.2024", "7"}

\* The characters of a text
Chars(s) ==
    CASE
         s = "N" -> <<"N">>
      [] s = "N " -> <<"N", " ">>
      [] s = "Nf" -> <<"N", "f">>
      [] s = "Hbo" -> <<"H", "b", "o">>
      [] s = "599" -> <<"5", "9", "9">>
      [] s = "-5" -> <<"-", "5">>
      [] s = "abc" -> <<"a", "b", "c">>
      [] s = "-" -> <<"-">>
      [] s = "1.3.24" -> <<"1", ".", "3", ".", "2", "4">>
      [] s = "31.02.2024" -> <<"3", "1", ".", "0", "2", ".", "2", "0", "2", "4">>
      [] s = "2024-03-01" -> <<"2", "0", "2", "4", "-", "0", "3", "-", "0", "1">>
      [] s = "Netflix" -> <<"N", "e", "t", "f", "l", "i", "x">>
      [] s = "01.06.2024" -> <<"0", "1", ".", "0", "6", ".", "2", "0", "2", "4">>
      [] s = "7" -> <<"7">>
      [] s = "" -> <<>>

\* The text with the given characters
TextOf(chars) == CHOOSE s \in KnownTexts \cup {""} : Chars(s) = chars

\* str.strip(), on characters
RECURSIVE LStrip(_)
LStrip(chars) ==
    IF chars # <<>> /\ Head(chars) = " " THEN LStrip(Tail(chars)) ELSE chars

RECURSIVE RStrip(_)
RStrip(chars) ==
    IF chars # <<>> /\ chars[Len(chars)] = " "
      THEN RStrip(SubSeq(chars, 1, Len(chars) - 1))
      ELSE chars

Strip(chars) == RStrip(LStrip(chars))

\* re.sub(r'\s+', '', date_string)
RemoveSpaces(chars) == SelectSeq(chars, LAMBDA c : c # " ")

DigitChars == {"0", "1", "2", "3", "4", "5", "6", "7", "8", "9"}

DigitValue(c) ==
    CASE c = "0" -> 0 [] c = "1" -> 1 [] c = "2" -> 2 [] c = "3" -> 3
      [] c = "4" -> 4 [] c = "5" -> 5 [] c = "6" -> 6 [] c = "7" -> 7
      [] c = "8" -> 8 [] c = "9" -> 9

AllDigits(chars) == chars # <<>> /\ \A k \in 1..Len(chars) : chars[k] \in DigitChars

\* int() of a string of decimal digits
RECURSIVE DigitsValue(_)
DigitsValue(chars) ==
    IF chars = <<>> THEN 0
    ELSE 10 * DigitsValue(SubSeq(chars, 1, Len(chars) - 1))
             + DigitValue(chars[Len(chars)])

\* float(s) for texts without decimal point or exponent: surrounding
\* whitespace dropped, an optional sign, then decimal digits; anything else
\* raises ValueError.
ParseFloat(chars) ==
    LET t == Strip(chars)
        signed == t # <<>> /\ Head(t) \in {"-", "+"}
        body == IF signed THEN Tail(t) ELSE t
    IN  IF AllDigits(body)
          THEN [ok |-> TRUE,
                value |-> IF signed /\ Head(t) = "-"
                            THEN 0 - DigitsValue(body) ELSE DigitsValue(body)]
          ELSE [ok |-> FALSE, value |-> 0]

\* validate_price with a fault: the sign of the parsed number is not tested.
ValidatePriceAnyNumber(chars) == ParseFloat(chars).ok

\* validate_price(price_string): float() succeeds and the price is >= 0
validate_price(chars) ==
    ParseFloat(chars).ok /\ ParseFloat(chars).value >= 0

\* The fields of a text between the occurrences of a separator character
RECURSIVE Split(_, _)
Split(chars, sep) ==
    IF \A k \in 1..Len(chars) : chars[k] # sep
      THEN <<chars>>
      ELSE LET k == CHOOSE j \in 1..Len(chars) :
                        chars[j] = sep /\ \A i \in 1..(j - 1) : chars[i] # sep
           IN  <<SubSeq(chars, 1, k - 1)>>
                   \o Split(SubSeq(chars, k + 1, Len(chars)), sep)

\* strptime directives on one field: %d and %m take one or two digits,
\* %Y four, %y two
FieldOK(field, directive) ==
    /\ AllDigits(field)
    /\ CASE directive = "d" -> Len(field) \in {1, 2} /\ DigitsValue(field) \in 1..31
         [] directive = "m" -> Len(field) \in {1, 2} /\ DigitsValue(field) \in 1..12
         [] directive = "Y" -> Len(field) = 4
         [] directive = "y" -> Len(field) = 2

\* The year strptime gives for %y: 00..68 are 2000..2068, 69..99 are 1969..1999
TwoDigitYear(yy) == IF yy <= 68 THEN 2000 + yy ELSE 1900 + yy

\* datetime.strptime(date_string, fmt) for a format of three directives and a
\* separator: the date, or ValueError
Strptime(chars, directives, sep) ==
    LET fields == Split(chars, sep)
    IN  IF /\ Len(fields) = 3
           /\ \A k \in 1..3 : FieldOK(fields[k], directives[k])
          THEN LET value(dir) ==
                       DigitsValue(fields[CHOOSE k \in 1..3 : directives[k] = dir])
                   year == IF \E k \in 1..3 : directives[k] = "Y"
                             THEN value("Y") ELSE TwoDigitYear(value("y"))
                   date == Date(year, value("m"), value("d"))
               IN  IF year >= 1 /\ IsValidDate(date) THEN date ELSE ValueError
          ELSE ValueError

\* formats of parse_date_flexible, in the order they are tried
DateFormats ==
    << <<(<<"Y", "m", "d">>), "-">>,
       <<(<<"d", "m", "Y">>), ".">>,
       <<(<<"d", "m", "Y">>), "/">>,
       <<(<<"d", "m", "Y">>), "-">>,
       <<(<<"d", "m", "y">>), ".">>,
       <<(<<"d", "m", "y">>), "/">>,
       <<(<<"d", "m", "y">>), "-">> >>

\* if dt.year < 100: dt = dt.replace(year=dt.year + 2000)
YearCorrected(date) ==
    IF date.year < 100
      THEN DateReplace(date.year + 2000, date.month, date.day)
      ELSE date

\* One round of the for loop of parse_date_flexible: dt for format k, or
\* ValueError (caught; the next format is tried)
ParseWith(text, k) ==
    LET dt == Strptime(text, DateFormats[k][1], DateFormats[k][2])
    IN  IF dt = ValueError THEN ValueError ELSE YearCorrected(dt)

\* parse_date_flexible(date_string): the date of the first format that
\* parses, NoDate (None) when none does
parse_date_flexible(chars) ==
    LET text == RemoveSpaces(Strip(chars))
        parses == {k \in 1..Len(DateFormats) : ParseWith(text, k) # ValueError}
    IN  IF parses = {} THEN NoDate
        ELSE LET first == CHOOSE k \in parses : \A j \in parses : k <= j
             IN  ParseWith(text, first)

DigitChar(n) ==
    CASE n = 0 -> "0" [] n = 1 -> "1" [] n = 2 -> "2" [] n = 3 -> "3"
      [] n = 4 -> "4" [] n = 5 -> "5" [] n = 6 -> "6" [] n = 7 -> "7"
      [] n = 8 -> "8" [] n = 9 -> "9"

\* str(n) of a natural number
RECURSIVE Decimal(_)
Decimal(n) ==
    IF n < 10 THEN <<DigitChar(n)>>
    ELSE Decimal(n \div 10) \o <<DigitChar(n % 10)>>

\* str.zfill(width)
RECURSIVE ZeroFill(_, _)
ZeroFill(chars, width) ==
    IF Len(chars) >= width THEN chars ELSE ZeroFill(<<"0">> \o chars, width)

\* strftime %Y: four digits where the platform's C library pads the year,
\* the bare number where it does not (glibc, for years under 1000)
YearText(year, zeroPad) ==
    IF zeroPad THEN ZeroFill(Decimal(year), 4) ELSE Decimal(year)

\* dt.strftime('%Y-%m-%d')
Strftime(date, zeroPad) ==
    YearText(date.year, zeroPad) \o <<"-">> \o ZeroFill(Decimal(date.month), 2)
        \o <<"-">> \o ZeroFill(Decimal(date.day), 2)

\* The str parse_date_flexible returns, NoText for None
NormalizedDate(chars, zeroPad) ==
    IF parse_date_flexible(chars) = NoDate THEN NoText
    ELSE Strftime(parse_date_flexible(chars), zeroPad)

\* parse_date_flexible applied to bounded inputs: day.month.year texts with
\* the three separators, days and months written with and without a leading
\* zero, every two-digit year and some four-digit years; year-month-day
\* texts; texts that are no date.
DateDays == {1, 29, 31}

DateMonths == {2, 3}

MaxTwoDigitYear == 99

FourDigitYears == {50, 999, 2024}

DateSeparators == {".", "/", "-"}

YearTexts ==
    {ZeroFill(Decimal(yy), 2) : yy \in 0..MaxTwoDigitYear}
        \cup {ZeroFill(Decimal(y), 4) : y \in FourDigitYears}

DateInputs ==
    {ZeroFill(Decimal(d), w) \o <<sep>> \o ZeroFill(Decimal(m), w) \o <<sep>> \o y :
        d \in DateDays, m \in DateMonths, w \in {1, 2}, sep \in DateSeparators,
        y \in YearTexts}
    \cup {ZeroFill(Decimal(y), 4) \o <<"-">> \o ZeroFill(Decimal(m), 2) \o <<"-">>
              \o ZeroFill(Decimal(d), 2) :
            y \in FourDigitYears, m \in DateMonths, d \in DateDays}
    \cup {<<>>, <<"a", "b", "c">>, <<"1", ".", "3">>, <<" ", "1", ".", " ", "3", ".", "2", "4">>}

DateInit ==
    /\ dateText \in DateInputs
    /\ dateZeroPad \in BOOLEAN
    /\ dateStored = NoText
    /\ datePc = "input"
    /\ fieldName = "None"
    /\ fieldText = ""
    /\ fieldIntake = [accepted |-> FALSE]
    /\ fieldEdit = [accepted |-> FALSE]
    /\ fieldPc = {}
    /\ analytics = NoReport
    /\ updateResult = "None"
    /\ RunIdle
    /\ CalIdle
    /\ BotIdle

\* normalized = parse_date_flexible(date_text), as handle_date and
\* edit_field_value call it
ParseDateFlexible ==
    /\ datePc = "input"
    /\ dateStored' = NormalizedDate(dateText, dateZeroPad)
    /\ datePc' = "parsed"
    /\ UNCHANGED <<dateText, dateZeroPad, fieldVars, analytics, runVars, callVars, calVars, botVars>>

DateNext == ParseDateFlexible

DateSpec == DateInit /\ [][DateNext]_vars

-----------------------------------------------------------------------------
(* handlers.py and main.py: the add and edit conversations *)

\* The texts sent in each state of the add conversation and in the edit
\* conversation, and the buttons pressed
NameTexts == {"N", "N ", "Nf"}

PriceTexts == {"599", "-5", "abc"}

CommentTexts == {"-"}

DateTexts == {"1.3.24", "31.02.2024"}

PeriodButtons == {"monthly", "daily"}

EditFields == {"name", "period"}

EditTexts == {"N", "Hbo"}

\* The states of add_command_handler in which a text message has a handler
TextStates == {"WAITING_NAME", "WAITING_PRICE", "WAITING_COMMENT", "WAITING_DATE"}

\* The keys handle_period_selection reads from user_states[user_id]['data']
DataKeys == {"name", "price", "comment", "start_date"}

\* d[key] = value on a dict
Put(d, key, value) ==
    [k \in (DOMAIN d) \cup {key} |-> IF k = key THEN value ELSE d[k]]

\* del d[key]
Del(d, key) == [k \in (DOMAIN d) \ {key} |-> d[k]]

\* add_subscription on a table whose id is a plain INTEGER PRIMARY KEY: the
\* new id is the largest id in the table plus one
AddSubscriptionMaxRowid(table, sequence, user, data, period) ==
    Put(table,
        (IF DOMAIN table = {} THEN 0
         ELSE CHOOSE m \in DOMAIN table : \A k \in DOMAIN table : k <= m) + 1,
        [user_id |-> user, name |-> data["name"], price |-> data["price"],
         comment |-> data["comment"], start_date |-> data["start_date"],
         period |-> period, status |-> "active", notifications_enabled |-> TRUE])

\* add_subscription(...): INSERT with the next AUTOINCREMENT id; status and
\* notifications_enabled take the column defaults
add_subscription(table, sequence, user, data, period) ==
    Put(table, sequence + 1,
        [user_id |-> user, name |-> data["name"], price |-> data["price"],
         comment |-> data["comment"], start_date |-> data["start_date"],
         period |-> period, status |-> "active", notifications_enabled |-> TRUE])

\* self.user_states[user_id] = {'action': 'add', 'data': {}}
StartAdd(u) ==
    user_states' = Put(user_states, u, EmptyTable)

\* start_add_subscription_command: the /add command.  An entry point of
\* add_command_handler; inside the conversation /add reaches unknown_command.
StartAddCommand(u) ==
    /\ IF convAdd[u] = "END"
         THEN /\ StartAdd(u)
              /\ convAdd' = [convAdd EXCEPT ![u] = "WAITING_NAME"]
              /\ flowTrace' = [flowTrace EXCEPT ![u] = <<>>]
         ELSE UNCHANGED <<user_states, convAdd, flowTrace>>
    /\ UNCHANGED <<convEdit, user_data, schedVars, tickVars, calVars, fnVars, payment_history>>

\* start_add_subscription: the add_subscription button.  An entry point of
\* add_command_handler; inside the conversation the button reaches
\* button_handler, which calls start_add_subscription and drops its result.
StartAddButton(u) ==
    /\ StartAdd(u)
    /\ IF convAdd[u] = "END"
         THEN /\ convAdd' = [convAdd EXCEPT ![u] = "WAITING_NAME"]
              /\ flowTrace' = [flowTrace EXCEPT ![u] = <<>>]
         ELSE UNCHANGED <<convAdd, flowTrace>>
    /\ UNCHANGED <<convEdit, user_data, schedVars, tickVars, calVars, fnVars, payment_history>>

\* A handler of the add conversation stored data[key] = value and returned
\* the next state
Accept(u, key, value, next) ==
    /\ user_states' = [user_states EXCEPT ![u] = Put(@, key, value)]
    /\ convAdd' = [convAdd EXCEPT ![u] = next]
    /\ flowTrace' = [flowTrace EXCEPT ![u] = Append(@, key)]

\* handle_name with a fault: the length test made before strip().
NameTooShortUnstripped(chars) == Len(chars) < 2

\* len(name) < 2, name = update.message.text.strip()
NameTooShort(chars) == Len(Strip(chars)) < 2

\* handle_name: a text message in WAITING_NAME
HandleName(u, text) ==
    /\ convAdd[u] = "WAITING_NAME"
    /\ IF u \notin DOMAIN user_states
         THEN /\ convAdd' = [convAdd EXCEPT ![u] = "END"]
              /\ UNCHANGED <<user_states, flowTrace>>
         ELSE IF NameTooShort(Chars(text))
           THEN UNCHANGED <<user_states, convAdd, flowTrace>>
           ELSE Accept(u, "name", TextOf(Strip(Chars(text))), "WAITING_PRICE")
    /\ UNCHANGED <<convEdit, user_data, schedVars, tickVars, calVars, fnVars, payment_history>>

\* handle_price: a text message in WAITING_PRICE.  Without a user state the
\* assignment raises KeyError and the conversation stays where it is.
HandlePrice(u, text) ==
    /\ convAdd[u] = "WAITING_PRICE"
    /\ IF ~validate_price(Strip(Chars(text))) \/ u \notin DOMAIN user_states
         THEN UNCHANGED <<user_states, convAdd, flowTrace>>
         ELSE Accept(u, "price", ParseFloat(Strip(Chars(text))).value,
                     "WAITING_COMMENT")
    /\ UNCHANGED <<convEdit, user_data, schedVars, tickVars, calVars, fnVars, payment_history>>

\* handle_comment: a text message in WAITING_COMMENT; '-' stands for no comment
HandleComment(u, text) ==
    /\ convAdd[u] = "WAITING_COMMENT"
    /\ IF u \notin DOMAIN user_states
         THEN UNCHANGED <<user_states, convAdd, flowTrace>>
         ELSE Accept(u, "comment",
                     IF TextOf(Strip(Chars(text))) = "-"
                       THEN "" ELSE TextOf(Strip(Chars(text))),
                     "WAITING_DATE")
    /\ UNCHANGED <<convEdit, user_data, schedVars, tickVars, calVars, fnVars, payment_history>>

\* handle_date: a text message in WAITING_DATE
HandleDate(u, text) ==
    /\ convAdd[u] = "WAITING_DATE"
    /\ IF parse_date_flexible(Chars(text)) = NoDate \/ u \notin DOMAIN user_states
         THEN UNCHANGED <<user_states, convAdd, flowTrace>>
         ELSE Accept(u, "start_date", parse_date_flexible(Chars(text)),
                     "WAITING_PERIOD")
    /\ UNCHANGED <<convEdit, user_data, schedVars, tickVars, calVars, fnVars, payment_history>>

\* handle_period_selection with a fault: data.get(key) in place of
\* data[key], so a missing key raises nothing.
PeriodSelectionNeverRaises(states, u) == FALSE

\* handle_period_selection with a fault: only the user state is looked up
\* before the insert, as handle_name does.
PeriodSelectionChecksSessionOnly(states, u) == u \notin DOMAIN states

\* handle_period_selection raises KeyError before add_subscription is
\* called: no user state, or a key of data not stored yet
PeriodSelectionRaises(states, u) ==
    \/ u \notin DOMAIN states
    \/ ~(DataKeys \subseteq DOMAIN states[u])

\* The arguments handle_period_selection hands to add_subscription, one for
\* each key of data; a key that was never stored shows as None (-1 for the
\* price, NoDate for the date)
DataOrNone(states, u) ==
    [k \in DataKeys |->
        IF u \in DOMAIN states /\ k \in DOMAIN states[u] THEN states[u][k]
        ELSE IF k = "price" THEN -1 ELSE IF k = "start_date" THEN NoDate ELSE "None"]

\* handle_period_selection: a period_<key> button.  A fallback of
\* add_command_handler, so it runs in every state of the conversation;
\* outside the conversation the button reaches button_handler, which has no
\* branch for it.
PeriodSelection(u, period) ==
    /\ IF convAdd[u] = "END" \/ PeriodSelectionRaises(user_states, u)
         THEN UNCHANGED <<subscriptions, sqliteSequence, user_states, convAdd, flowTrace>>
         ELSE /\ sqliteSequence < MaxSubs
              /\ subscriptions' = add_subscription(subscriptions, sqliteSequence, u,
                                       DataOrNone(user_states, u), period)
              /\ sqliteSequence' = sqliteSequence + 1
              /\ user_states' = Del(user_states, u)
              /\ convAdd' = [convAdd EXCEPT ![u] = "END"]
              /\ flowTrace' = [flowTrace EXCEPT ![u] = Append(@, "period")]
    /\ UNCHANGED <<convEdit, user_data, clockDay, clockSlot, loopPc, sent,
                   tickDaysLeft, tickVars, calVars, fnVars, payment_history>>

\* cancel_conversation / cancel_conversation_callback with a fault: the
\* handler returns None, which leaves the conversation in its state.
CancelKeepsState(state) == state

\* The state cancel_conversation and cancel_conversation_callback return
CancelReturns(state) == "END"

\* cancel_conversation (/cancel) and cancel_conversation_callback (the
\* cancel_add button): fallbacks of add_command_handler.  Outside the
\* conversation /cancel reaches unknown_command and the button button_handler.
Cancel(u) ==
    /\ IF convAdd[u] = "END"
         THEN UNCHANGED <<user_states, convAdd, flowTrace>>
         ELSE /\ user_states' = Del(user_states, u)
              /\ convAdd' = [convAdd EXCEPT ![u] = CancelReturns(@)]
              /\ flowTrace' = [flowTrace EXCEPT ![u] = Append(@, "cancel")]
    /\ UNCHANGED <<convEdit, user_data, schedVars, tickVars, calVars, fnVars, payment_history>>

CancelCommand(u) == Cancel(u)

CancelButton(u) == Cancel(u)

\* show_main_menu: the back_to_main button.  As a fallback of either
\* conversation it is called with the Update where it expects the
\* CallbackQuery, raises AttributeError on update.edit_message_text and
\* leaves the conversation in its state; through button_handler it shows
\* the menu.  No state changes either way.
ShowMainMenu(u) ==
    /\ UNCHANGED vars

\* show_subscriptions: the list_subscriptions button.  As a fallback of
\* edit_subscription_handler it is called with the Update, raises
\* AttributeError on update.from_user and leaves the conversation in its
\* state; through button_handler it shows the list.
ShowSubscriptions(u) ==
    /\ UNCHANGED vars

\* edit_field_entry: an edit_field_<id>_<field> button of a card shown for
\* row id.  The entry point of edit_subscription_handler; inside that
\* conversation the button reaches button_handler and edit_subscription_menu,
\* where int("field_<id>_<field>") raises ValueError.
EditFieldEntry(u, id, field) ==
    /\ id \in 1..sqliteSequence
    /\ IF convEdit[u] = "END"
         THEN /\ user_data' = [user_data EXCEPT ![u] =
                      [edit_subscription_id |-> id, edit_field |-> field]]
              /\ convEdit' = [convEdit EXCEPT ![u] = "EDIT_VALUE"]
         ELSE UNCHANGED <<user_data, convEdit>>
    /\ UNCHANGED <<user_states, convAdd, flowTrace, schedVars, tickVars, calVars, fnVars, payment_history>>

\* The state an edit handler returns after update_subscription: it reads the
\* row back with get_subscription and formats it; for a row that is gone,
\* format_subscription_info(None) raises TypeError and the conversation keeps
\* its state.
AfterEdit(table, id, state) ==
    IF RowExists(table, id) THEN "END" ELSE state

\* The validation edit_field_value applies to the stripped text
EditValueInvalid(field, chars) ==
    \/ field = "price" /\ ~validate_price(chars)
    \/ field = "start_date" /\ parse_date_flexible(chars) = NoDate
    \/ field = "name" /\ Len(chars) < 2

\* The value edit_field_value stores
EditValue(field, chars) ==
    CASE field = "price" -> ParseFloat(chars).value
      [] field = "start_date" -> parse_date_flexible(chars)
      [] OTHER -> TextOf(chars)

\* edit_field_value: a text message in EDIT_VALUE (add_command_handler comes
\* first and takes the message when it is in a state with a text handler)
EditFieldValue(u, text) ==
    /\ convEdit[u] = "EDIT_VALUE"
    /\ convAdd[u] \notin TextStates
    /\ LET id == user_data[u].edit_subscription_id
           field == user_data[u].edit_field
           chars == Strip(Chars(text))
       IN  IF EditValueInvalid(field, chars)
             THEN UNCHANGED <<subscriptions, convEdit>>
             ELSE /\ subscriptions' = update_subscription(subscriptions, id, field,
                                          EditValue(field, chars))
                  /\ convEdit' = [convEdit EXCEPT ![u] = AfterEdit(subscriptions, id, @)]
    /\ UNCHANGED <<user_data, user_states, convAdd, flowTrace, sqliteSequence,
                   clockDay, clockSlot, loopPc, sent, tickDaysLeft, tickVars, calVars, fnVars, payment_history>>

\* edit_field_set_period / edit_field_set_status: a set_period_<key> or
\* set_status_<key> button in EDIT_VALUE, whatever field is being edited;
\* outside the conversation button_handler has no branch for them.
EditFieldSet(u, column, value) ==
    /\ IF convEdit[u] = "EDIT_VALUE"
         THEN LET id == user_data[u].edit_subscription_id
              IN  /\ subscriptions' = update_subscription(subscriptions, id, column, value)
                  /\ convEdit' = [convEdit EXCEPT ![u] = AfterEdit(subscriptions, id, @)]
         ELSE UNCHANGED <<subscriptions, convEdit>>
    /\ UNCHANGED <<user_data, user_states, convAdd, flowTrace, sqliteSequence,
                   clockDay, clockSlot, loopPc, sent, tickDaysLeft, tickVars, calVars, fnVars, payment_history>>

EditFieldSetPeriod(u, period) == EditFieldSet(u, "period", period)

EditFieldSetStatus(u, status) == EditFieldSet(u, "status", status)

\* The users who hold conversations; the others press id-bearing buttons only
Talkers == {101}

\* The set_period_<key> and set_status_<key> buttons pressed
SetPeriodButtons == {"monthly", "daily"}

SetStatusButtons == {"paused"}

ConvInit == CalIdle /\ FnIdle /\ BotIdle

ConvNext ==
    \/ \E u \in Talkers : StartAddCommand(u)
    \/ \E u \in Talkers : StartAddButton(u)
    \/ \E u \in Talkers, text \in NameTexts : HandleName(u, text)
    \/ \E u \in Talkers, text \in PriceTexts : HandlePrice(u, text)
    \/ \E u \in Talkers, text \in CommentTexts : HandleComment(u, text)
    \/ \E u \in Talkers, text \in DateTexts : HandleDate(u, text)
    \/ \E u \in Talkers, period \in PeriodButtons : PeriodSelection(u, period)
    \/ \E u \in Talkers : CancelCommand(u)
    \/ \E u \in Talkers : CancelButton(u)
    \/ \E u \in Talkers : ShowMainMenu(u)
    \/ \E u \in Talkers : ShowSubscriptions(u)
    \/ \E u \in Talkers, id \in 1..MaxSubs, field \in EditFields : EditFieldEntry(u, id, field)
    \/ \E u \in Talkers, text \in EditTexts : EditFieldValue(u, text)
    \/ \E u \in Talkers, period \in SetPeriodButtons : EditFieldSetPeriod(u, period)
    \/ \E u \in Talkers, status \in SetStatusButtons : EditFieldSetStatus(u, status)
    \/ \E id \in 1..MaxSubs : DeleteSubscription(id)

ConvSpec == ConvInit /\ [][ConvNext]_vars

-----------------------------------------------------------------------------
(* One subscription entered through the add conversation, then edited *)

\* The callback data left of set_status_inactive_<id>_<status> once
\* edit_field_set_status has removed 'set_status_'
InactiveStatusData(id, status) ==
    CASE id = 1 /\ status = "cancelled" -> "inactive_1_cancelled"
      [] id = 2 /\ status = "cancelled" -> "inactive_2_cancelled"
      [] id = 3 /\ status = "cancelled" -> "inactive_3_cancelled"
      [] OTHER -> "inactive"

\* A set_status_inactive_<id>_<status> button of the inactive list.  While
\* the user's edit conversation is in EDIT_VALUE the pattern ^set_status_
\* of edit_field_set_status takes it; otherwise it reaches button_handler
\* and set_status_inactive.
SetStatusInactiveButton(u, id, status) ==
    IF convEdit[u] = "EDIT_VALUE"
      THEN EditFieldSet(u, "status", InactiveStatusData(id, status))
      ELSE SetStatusInactive(id, status)

\* The day a listing is asked for
ListingDay == Date(2024, 7, 1)

\* show_subscriptions / list_subscriptions_command: for each active row of
\* the user, next_payment and days_left (the order of the lines left out)
show_subscriptions(table, user, today) ==
    [i \in get_user_subscriptions(table, user, "active") |->
        [next_payment |-> calculate_next_payment_date(table[i].start_date,
                                                      table[i].period, today),
         days_left |-> DaysBetween(
                           calculate_next_payment_date(table[i].start_date,
                                                       table[i].period, today),
                           today)]]

\* The texts and buttons of this scenario
EntryNames == {"Netflix"}

EntryPrices == {"599", "-5"}

EntryComments == {"-"}

EntryDates == {"01.06.2024", "31.02.2024"}

EntryPeriods == {"monthly"}

CardFields == {"price", "status"}

CardTexts == {"-5", "7", "abc"}

CardStatusButtons == {"paused"}

InactiveListStatuses == {"cancelled"}

EditInit == CalIdle /\ FnIdle /\ BotIdle

EditNext ==
    \/ \E u \in Talkers : StartAddCommand(u)
    \/ \E u \in Talkers, text \in EntryNames : HandleName(u, text)
    \/ \E u \in Talkers, text \in EntryPrices : HandlePrice(u, text)
    \/ \E u \in Talkers, text \in EntryComments : HandleComment(u, text)
    \/ \E u \in Talkers, text \in EntryDates : HandleDate(u, text)
    \/ \E u \in Talkers, period \in EntryPeriods : PeriodSelection(u, period)
    \/ \E u \in Talkers, id \in 1..MaxSubs, field \in CardFields : EditFieldEntry(u, id, field)
    \/ \E u \in Talkers, text \in CardTexts : EditFieldValue(u, text)
    \/ \E u \in Talkers, status \in CardStatusButtons : EditFieldSetStatus(u, status)
    \/ \E u \in Talkers, id \in 1..MaxSubs, status \in InactiveListStatuses :
           SetStatusInactiveButton(u, id, status)
    \/ \E id \in 1..MaxSubs : DeleteSubscription(id)

EditSpec == EditInit /\ [][EditNext]_vars

-----------------------------------------------------------------------------
(* The repository with several owners: analytics, status changes, deletions *)

\* Rows of two owners with different prices and periods, as add_subscription
\* inserts them
StoreRows ==
    {[user_id |-> r[1], name |-> "Netflix", price |-> r[2], comment |-> "",
      start_date |-> Date(2024, 3, 1), period |-> r[3],
      status |-> "active", notifications_enabled |-> TRUE] :
        r \in {<<101, 599, "monthly">>, <<101, 7, "daily">>, <<102, 599, "yearly">>}}

\* The most rows the repository of the analytics holds
MaxStoreRows == 3

StoreTables == UNION {[1..n -> StoreRows] : n \in 0..MaxStoreRows}

\* The database file outlives the process: payment_history is created by
\* init_database, and here it holds a row, naming subscription 1, that no
\* code of the bot inserted.
StoreHistory ==
    [i \in {1} |-> [subscription_id |-> 1, payment_date |-> Date(2024, 3, 1),
                    amount |-> 599]]

StoreInit ==
    /\ CalIdle
    /\ FnIdle
    /\ TickIdle
    /\ ConvIdle
    /\ payment_history = StoreHistory
    /\ subscriptions \in StoreTables
    /\ sqliteSequence = Cardinality(DOMAIN subscriptions)
    /\ clockDay = ClockFirstDay
    /\ clockSlot = 1
    /\ loopPc = "idle"
    /\ sent = {}
    /\ tickDaysLeft = {}

\* analytics_command: /analytics (show_analytics computes the same figures)
AnalyticsCommand(u) ==
    /\ analytics' =
           IF get_user_subscriptions(subscriptions, u, "active") = {}
             THEN [NoReport EXCEPT !.user = u]
             ELSE [user |-> u, shown |-> TRUE,
                   monthly |-> get_total_expenses(subscriptions, u, "monthly"),
                   yearly |-> get_total_expenses(subscriptions, u, "yearly"),
                   total |-> get_total_expenses(subscriptions, u, "total"),
                   by_category |-> get_expenses_by_category(subscriptions, u)]
    /\ UNCHANGED <<dateVars, fieldVars, runVars, callVars, calVars, botVars>>

StoreNext ==
    \/ \E u \in Users : AnalyticsCommand(u)
    \/ \E id \in 1..MaxStoreRows, status \in Statuses : SetStatusInactive(id, status)
    \/ \E id \in 1..MaxStoreRows : DeleteSubscription(id)

StoreSpec == StoreInit /\ [][StoreNext]_vars

-----------------------------------------------------------------------------
(* database.py: update_subscription called with keyword arguments *)

\* update_subscription(subscription_id, **kwargs): False without kwargs;
\* UPDATE subscriptions SET <key> = ?, ... WHERE id = ? raises
\* sqlite3.OperationalError for a key that is no column of the table and
\* rolls back; otherwise the result is cursor.rowcount > 0
update_subscription_kwargs(table, id, kwargs) ==
    IF DOMAIN kwargs = {}
      THEN [table |-> table, result |-> "False"]
    ELSE IF ~(DOMAIN kwargs \subseteq SubscriptionColumns)
      THEN [table |-> table, result |-> "OperationalError"]
    ELSE IF RowExists(table, id)
      THEN [table |-> [table EXCEPT ![id] =
                          [k \in DOMAIN @ |->
                              IF k \in DOMAIN kwargs THEN kwargs[k] ELSE @[k]]],
            result |-> "True"]
    ELSE [table |-> table, result |-> "False"]

\* The keyword arguments of the calls: none, one column, two columns, and the
\* notification_time that set_notification_time passes
UpdateInputs ==
    {EmptyTable,
     [status |-> "paused"],
     [name |-> "Hbo", price |-> 7],
     [notification_time |-> "21:00"]}

UpdateInit ==
    /\ CalIdle
    /\ FnIdle
    /\ TickIdle
    /\ ConvIdle
    /\ payment_history = EmptyTable
    /\ subscriptions \in InitialTables
    /\ sqliteSequence = Cardinality(DOMAIN subscriptions)
    /\ clockDay = ClockFirstDay
    /\ clockSlot = 1
    /\ loopPc = "idle"
    /\ sent = {}
    /\ tickDaysLeft = {}

\* self.db.update_subscription(id, **kwargs)
UpdateSubscription(id, kwargs) ==
    /\ subscriptions' = update_subscription_kwargs(subscriptions, id, kwargs).table
    /\ updateResult' = update_subscription_kwargs(subscriptions, id, kwargs).result
    /\ UNCHANGED <<dateVars, fieldVars, analytics, runVars, calVars,
                   sqliteSequence, clockDay, clockSlot, loopPc, sent, tickDaysLeft,
                   tickVars, convVars, payment_history>>

UpdateNext ==
    \/ \E id \in 1..(MaxSubs + 1), kwargs \in UpdateInputs : UpdateSubscription(id, kwargs)
    \/ \E id \in 1..MaxSubs : DeleteSubscription(id)

UpdateSpec == UpdateInit /\ [][UpdateNext]_vars

-----------------------------------------------------------------------------
(* main.py: SubscriptionBotApp.run, from the start of the process *)

StartInit ==
    /\ CalIdle
    /\ TickIdle
    /\ ConvIdle
    /\ botToken \in BOOLEAN
    /\ runPc = "main"
    /\ analytics = NoReport
    /\ updateResult = "None"
    /\ dateText = <<>>
    /\ dateZeroPad = TRUE
    /\ dateStored = NoText
    /\ datePc = "idle"
    /\ fieldName = "None"
    /\ fieldText = ""
    /\ fieldIntake = [accepted |-> FALSE]
    /\ fieldEdit = [accepted |-> FALSE]
    /\ fieldPc = {}
    /\ payment_history = EmptyTable
    /\ subscriptions \in InitialTables
    /\ sqliteSequence = Cardinality(DOMAIN subscriptions)
    /\ clockDay = ClockFirstDay
    /\ clockSlot = 1
    /\ loopPc = "idle"
    /\ sent = {}
    /\ tickDaysLeft = {}

\* setup_application without its test of BOT_TOKEN
TokenMissingIgnored(token) == FALSE

\* if not BOT_TOKEN: raise ValueError(...)
TokenMissing(token) == ~token

\* application = await self.setup_application(): the token test, then the
\* Application, setup_handlers and the NotificationManager; the ValueError
\* leaves run() through its except clause, which logs and re-raises
SetupApplication ==
    /\ runPc = "main"
    /\ runPc' = IF TokenMissing(botToken) THEN "aborted" ELSE "setup"
    /\ UNCHANGED <<botToken, dateVars, fieldVars, analytics, callVars, calVars, botVars>>

\* application.initialize(), application.start(), updater.start_polling():
\* from here on the registered handlers receive updates
StartPolling ==
    /\ runPc = "setup"
    /\ runPc' = "polling"
    /\ UNCHANGED <<botToken, dateVars, fieldVars, analytics, callVars, calVars, botVars>>

\* asyncio.create_task(self.start_notification_loop())
CreateNotificationTask ==
    /\ runPc = "polling"
    /\ runPc' = "running"
    /\ loopPc' = "try"
    /\ UNCHANGED <<botToken, dateVars, fieldVars, analytics, callVars, calVars,
                   subscriptions, sqliteSequence, clockDay, clockSlot, sent,
                   tickDaysLeft, tickVars, convVars, payment_history>>

\* The updater delivers updates to the handlers
Polling == runPc \in {"polling", "running"}

StartNext ==
    \/ SetupApplication
    \/ StartPolling
    \/ CreateNotificationTask
    \/ NotificationLoopTry
    \/ NotificationLoopSleep
    \/ Polling /\ \E id \in 1..MaxSubs : ToggleNotifications(id)
    \/ Polling /\ \E id \in 1..MaxSubs : DeleteSubscription(id)
    \/ Polling /\ \E id \in 1..MaxSubs, status \in Statuses : SetStatusInactive(id, status)

StartSpec == StartInit /\ [][StartNext]_vars

-----------------------------------------------------------------------------
(* The rules of the two conversations for one field, applied to bounded texts *)

\* A handler re-prompts; a handler stores value
Rejected == [accepted |-> FALSE]

Accepted(value) == [accepted |-> TRUE, value |-> value]

\* What the add conversation does with a text sent for a field: handle_name,
\* handle_price, handle_comment and handle_date; the period is chosen by
\* button, and no state of the conversation takes a text for it
IntakeRule(field, chars) ==
    CASE field = "name" ->
             IF NameTooShort(chars) THEN Rejected
             ELSE Accepted(TextOf(Strip(chars)))
      [] field = "price" ->
             IF ~validate_price(Strip(chars)) THEN Rejected
             ELSE Accepted(ParseFloat(Strip(chars)).value)
      [] field = "comment" ->
             Accepted(IF TextOf(Strip(chars)) = "-" THEN "" ELSE TextOf(Strip(chars)))
      [] field = "start_date" ->
             IF parse_date_flexible(Strip(chars)) = NoDate THEN Rejected
             ELSE Accepted(parse_date_flexible(Strip(chars)))
      [] OTHER -> Rejected

\* What edit_field_value does with a text sent for a field
EditRule(field, chars) ==
    IF EditValueInvalid(field, Strip(chars)) THEN Rejected
    ELSE Accepted(EditValue(field, Strip(chars)))

\* The fields both conversations set
FieldNames == {"name", "price", "comment", "start_date", "period"}

FieldInit ==
    /\ fieldName \in FieldNames
    /\ fieldText \in KnownTexts
    /\ fieldIntake = Rejected
    /\ fieldEdit = Rejected
    /\ fieldPc = {}
    /\ dateText = <<>>
    /\ dateZeroPad = TRUE
    /\ dateStored = NoText
    /\ datePc = "idle"
    /\ analytics = NoReport
    /\ updateResult = "None"
    /\ RunIdle
    /\ CalIdle
    /\ BotIdle

\* The text reaches the add conversation in the state that sets the field
IntakeField ==
    /\ "intake" \notin fieldPc
    /\ fieldIntake' = IntakeRule(fieldName, Chars(fieldText))
    /\ fieldPc' = fieldPc \cup {"intake"}
    /\ UNCHANGED <<fieldName, fieldText, fieldEdit, dateVars, analytics, runVars, callVars, calVars, botVars>>

\* The text reaches edit_field_value with edit_field set to the field
EditField ==
    /\ "edit" \notin fieldPc
    /\ fieldEdit' = EditRule(fieldName, Chars(fieldText))
    /\ fieldPc' = fieldPc \cup {"edit"}
    /\ UNCHANGED <<fieldName, fieldText, fieldIntake, dateVars, analytics, runVars, callVars, calVars, botVars>>

FieldNext == IntakeField \/ EditField

FieldSpec == FieldInit /\ [][FieldNext]_vars

-----------------------------------------------------------------------------
(* The calendar engine applied to bounded inputs *)

\* Periods handed to the engine: the closed set, and one value outside it
\* (the engine's fall-through branches).
PeriodInputs == Periods \cup {"other"}

\* Anchor days and months: first of month, mid-month, and the month ends that
\* need clamping; months around the year boundary and February.
StartDays == {1, 15, 28, 29, 30, 31}

StartMonths == {1, 2, 11, 12}

StartDates ==
    {d \in {Date(y, m, dd) : y \in {FirstYear, FirstYear + 1},
                             m \in StartMonths, dd \in StartDays} : IsValidDate(d)}
        \cup {Date(2020, 2, 29)}

\* Every day of FirstYear .. LastYear.
ClockDays ==
    {FromOrdinal(n) : n \in ToOrdinal(Date(FirstYear, 1, 1))
                              .. ToOrdinal(Date(LastYear, 12, 31))}

\* The price of the one subscription row the harness sums.
RowPrice == 599

CalInit ==
    /\ calStart \in StartDates
    /\ calPeriod \in PeriodInputs
    /\ calToday \in ClockDays
    /\ DaysBetween(calStart, calToday) <= MaxDaysBefore
    /\ calNext = NoDate
    /\ calDaysLeft = 0
    /\ calCount = 0
    /\ calTotal = 0
    /\ calPc = "input"
    /\ BotIdle
    /\ FnIdle

\* format_subscription_info: next_payment = calculate_next_payment_date(...),
\* days_left = days_until_payment(next_payment)
FormatSubscriptionInfo ==
    /\ calPc = "input"
    /\ calNext' = calculate_next_payment_date(calStart, calPeriod, calToday)
    /\ calDaysLeft' = IF calNext' = ValueError THEN 0
                      ELSE days_until_payment(calNext', calToday)
    /\ calPc' = "next"
    /\ UNCHANGED <<calStart, calPeriod, calToday, calCount, calTotal, botVars, fnVars>>

\* get_total_expenses_active_periods: the count n of one subscription row
TotalExpensesActivePeriods ==
    /\ calPc = "next"
    /\ calCount' = ElapsedPeriods(calStart, calPeriod, calToday)
    /\ calTotal' = PeriodExpense(RowPrice, calStart, calPeriod, calToday)
    /\ calPc' = "counted"
    /\ UNCHANGED <<calStart, calPeriod, calToday, calNext, calDaysLeft, botVars, fnVars>>

\* Midnight passes: the next calls read the following day.
NewDay ==
    /\ calPc = "counted"
    /\ AddDays(calToday, 1).year <= LastYear
    /\ calToday' = AddDays(calToday, 1)
    /\ calNext' = NoDate
    /\ calDaysLeft' = 0
    /\ calCount' = 0
    /\ calTotal' = 0
    /\ calPc' = "input"
    /\ UNCHANGED <<calStart, calPeriod, botVars, fnVars>>

CalNext == FormatSubscriptionInfo \/ TotalExpensesActivePeriods \/ NewDay

CalSpec == CalInit /\ [][CalNext]_vars

-----------------------------------------------------------------------------
(* The recurrence schedule anchored at a start date *)

Min(a, b) == IF a <= b THEN a ELSE b

\* start plus k calendar months, the anchor day clamped to the target month
AddMonthsClamped(start, k) ==
    LET t == start.month - 1 + k
        y == start.year + (t \div 12)
        m == (t % 12) + 1
    IN  Date(y, m, Min(start.day, DaysInMonth(y, m)))

\* The k-th occurrence of the schedule (k = 0 is the start date itself)
ScheduleDate(start, period, k) ==
    CASE period = "daily"     -> AddDays(start, k)
      [] period = "weekly"    -> AddDays(start, 7 * k)
      [] period = "monthly"   -> AddMonthsClamped(start, k)
      [] period = "quarterly" -> AddMonthsClamped(start, 3 * k)
      [] period = "yearly"    -> AddMonthsClamped(start, 12 * k)

\* The only step number whose occurrence can fall on d (occurrences are
\* strictly increasing in k, one per day / week / month / quarter / year)
StepsTo(start, period, d) ==
    CASE period = "daily"     -> DaysBetween(d, start)
      [] period = "weekly"    -> DaysBetween(d, start) \div 7
      [] period = "monthly"   -> MonthsBetween(start, d)
      [] period = "quarterly" -> MonthsBetween(start, d) \div 3
      [] period = "yearly"    -> MonthsBetween(start, d) \div 12

OnSchedule(start, period, d) ==
    LET k == StepsTo(start, period, d)
    IN  k >= 0 /\ ScheduleDate(start, period, k) = d

\* The dates strictly between a and b
DatesBetween(a, b) == {FromOrdinal(n) : n \in (ToOrdinal(a) + 1) .. (ToOrdinal(b) - 1)}

\* The dates from a to b, both included
DatesFromTo(a, b) == {FromOrdinal(n) : n \in ToOrdinal(a) .. ToOrdinal(b)}

\* The number of occurrences on or before the end date
OccurrencesUpTo(start, period, end) ==
    Cardinality({d \in DatesFromTo(start, end) : OnSchedule(start, period, d)})

NextCalled == calPc = "next"

StartedByToday == ~DateLT(calToday, calStart)

-----------------------------------------------------------------------------
(* Claims about the calendar engine, checked under CalSpec *)

\* C1: for every period of the closed set and every today >= start date,
\* calculate_next_payment_date returns a date strictly greater than today.
C1_NextAfterToday ==
    (NextCalled /\ calPeriod \in Periods /\ StartedByToday)
        => (calNext # ValueError /\ DateLT(calToday, calNext))

\* C1 witness: called on the start date itself; the result is a week later.
C1_Witness ==
    /\ calPc = "next"
    /\ calPeriod = "weekly"
    /\ calToday = calStart
    /\ calNext = AddDays(calStart, 7)

\* C2: the returned date is on the schedule anchored at the start date, is
\* greater than today, and no on-schedule date lies strictly between today
\* and it.
C2_NextIsMinimal ==
    (NextCalled /\ calPeriod \in Periods)
        => /\ calNext # ValueError
           /\ DateLT(calToday, calNext)
           /\ OnSchedule(calStart, calPeriod, calNext)
           /\ \A d \in DatesBetween(calToday, calNext) :
                  ~OnSchedule(calStart, calPeriod, d)

\* C2 witness: quarterly from 15 November, asked the day before the
\* February occurrence, more than one quarter after the start.
C2_Witness ==
    /\ calPc = "next"
    /\ calPeriod = "quarterly"
    /\ calStart.month = 11 /\ calStart.day = 15
    /\ calToday = Date(calStart.year + 1, 2, 14)
    /\ calNext = Date(calStart.year + 1, 2, 15)

\* C3: monthly, today >= start: the call does not raise and the day of the
\* result is min(start day, days in the result's month).
C3_MonthlyClamp ==
    (NextCalled /\ calPeriod = "monthly" /\ StartedByToday)
        => /\ calNext # ValueError
           /\ IsValidDate(calNext)
           /\ calNext.day = Min(calStart.day, DaysInMonth(calNext.year, calNext.month))

\* C3 witness: start 2024-01-31, stepping to February gives 2024-02-29.
C3_Witness ==
    /\ calPc = "next"
    /\ calPeriod = "monthly"
    /\ calStart = Date(2024, 1, 31)
    /\ calToday = Date(2024, 1, 31)
    /\ calNext = Date(2024, 2, 29)

\* The anniversary of the start date in year y: same month and day, a
\* 29 February start falling on 28 February when y is not a leap year.
Anniversary(start, y) ==
    IF start.month = 2 /\ start.day = 29 /\ ~IsLeap(y)
      THEN Date(y, 2, 28)
      ELSE Date(y, start.month, start.day)

\* C4: yearly, today >= start: the call does not raise and returns the
\* anniversary in the first year whose anniversary is after today.
C4_YearlyAnniversary ==
    (NextCalled /\ calPeriod = "yearly" /\ StartedByToday)
        => /\ calNext # ValueError
           /\ \E y \in calStart.year .. (calToday.year + 1) :
                /\ calNext = Anniversary(calStart, y)
                /\ DateLT(calToday, calNext)
                /\ \A z \in calStart.year .. (y - 1) :
                       ~DateLT(calToday, Anniversary(calStart, z))

\* C4 witness: start 2020-02-29, today 2025-03-01, result 2026-02-28.
C4_Witness ==
    /\ calPc = "next"
    /\ calPeriod = "yearly"
    /\ calStart = Date(2020, 2, 29)
    /\ calToday = Date(2025, 3, 1)
    /\ calNext = Date(2026, 2, 28)

\* C5: quarterly, today >= start: the result is the start date moved by a
\* whole multiple of 3 calendar months (year carried, day clamped to the
\* target month), whatever the start month.
C5_QuarterlyAnchored ==
    (NextCalled /\ calPeriod = "quarterly" /\ StartedByToday)
        => /\ calNext # ValueError
           /\ MonthsBetween(calStart, calNext) >= 3
           /\ MonthsBetween(calStart, calNext) % 3 = 0
           /\ calNext = AddMonthsClamped(calStart, MonthsBetween(calStart, calNext))

\* C5 witness: start 2024-11-15, today 2025-01-01, result 2025-02-15.
C5_Witness ==
    /\ calPc = "next"
    /\ calPeriod = "quarterly"
    /\ calStart = Date(2024, 11, 15)
    /\ calToday = Date(2025, 1, 1)
    /\ calNext = Date(2025, 2, 15)

\* C6: when today is earlier than the start date the result is the start
\* date, whatever the period.
C6_FutureStartReturned ==
    (NextCalled /\ DateLT(calToday, calStart)) => calNext = calStart

\* C6 witness: a yearly subscription starting more than a month from today.
C6_Witness ==
    /\ calPc = "next"
    /\ calPeriod = "yearly"
    /\ DaysBetween(calStart, calToday) > 31
    /\ calNext = calStart

\* C7: for end >= start the elapsed count equals the number of occurrences
\* of the schedule on or before the end date.
C7_CountEqualsOccurrences ==
    (calPc = "counted" /\ calPeriod \in Periods /\ StartedByToday)
        => calCount = OccurrencesUpTo(calStart, calPeriod, calToday)

\* C8: the elapsed count is 0, and the row adds nothing to the total, when
\* the end date (today) is earlier than the start date.
C8_FutureStartCountsZero ==
    (calPc = "counted" /\ DateLT(calToday, calStart))
        => (calCount = 0 /\ calTotal = 0)

\* C8 witness: a monthly row counted more than a month before its start.
C8_Witness ==
    /\ calPc = "counted"
    /\ calPeriod = "monthly"
    /\ MonthsBetween(calToday, calStart) >= 2
    /\ calCount = 0

-----------------------------------------------------------------------------
(* Claims about the notification scheduler, checked under Spec *)

\* A row a reminder is due for at the current tick: active, notifications
\* enabled, notification time equal to the current HH:MM, and
\* NOTIFICATION_DAYS_BEFORE days left until its next occurrence.
ReminderDue(i) ==
    /\ subscriptions[i].status = "active"
    /\ subscriptions[i].notifications_enabled
    /\ NotificationTimeOf(subscriptions[i]) = Now
    /\ DaysLeft(subscriptions[i], clockDay, clockDay) = NOTIFICATION_DAYS_BEFORE

\* C10: on every scheduler tick, a PaymentReminder is sent to the owner of
\* each subscription that is active, has notifications enabled, whose
\* notification time is the current HH:MM and whose next occurrence is
\* NOTIFICATION_DAYS_BEFORE days away.
C10_ReminderSentOnTick ==
    [][NotificationLoopTry =>
          \A i \in DOMAIN subscriptions :
              ReminderDue(i) =>
                  Message("PaymentReminder", subscriptions[i].user_id, i,
                          clockDay, Now) \in sent']_vars

SummaryDue(u) ==
    \E i \in DOMAIN subscriptions :
        /\ subscriptions[i].user_id = u
        /\ subscriptions[i].status = "active"
        /\ subscriptions[i].notifications_enabled
        /\ NotificationTimeOf(subscriptions[i]) = Now

\* C13: on each tick a DailySummary is emitted for every owner with an
\* active, notifications-enabled subscription whose notification time is the
\* current HH:MM, and for no other owner.
C13_DailySummaryOnTick ==
    [][NotificationLoopTry =>
          \A u \in Users :
              SummaryDue(u) <=>
                  Message("DailySummary", u, 0, clockDay, Now) \in sent']_vars

\* C15: after an exception raised during a tick the loop waits one interval
\* and starts another tick (up to the last minute the clock reaches).
C15_NextTickBegins ==
    (loopPc = "except" /\ ~ClockAtEnd) ~> (loopPc = "try")

\* C15 witness: a tick begins at the clock's last minute, after every
\* earlier tick ended in the except clause.
C15_Witness ==
    /\ loopPc = "try"
    /\ ClockAtEnd
    /\ sent = {}

-----------------------------------------------------------------------------
(* Claims about delivery, checked under TickSpec *)

\* A step in which bot.send_message was called and raised
FailedDelivery ==
    /\ Len(tickLog') = Len(tickLog) + 1
    /\ ~tickLog'[Len(tickLog')].delivered

\* C14: a failed delivery of a reminder, due-today notice or daily summary
\* leaves the tick in its for loop with the remaining rows and owners still
\* to be processed, is the only attempt at that message in the tick, delivers
\* nothing and changes no record.
C14_FailureSwallowed ==
    [][FailedDelivery =>
          /\ loopPc' = loopPc
          /\ loopPc = "notifications" =>
                 (tickSubs' = Tail(tickSubs) /\ tickUsers' = tickUsers)
          /\ loopPc = "summaries" => tickUsers' = Tail(tickUsers)
          /\ \A k \in 1..Len(tickLog) :
                 tickLog[k].message # tickLog'[Len(tickLog')].message
          /\ sent' = sent
          /\ subscriptions' = subscriptions]_vars

\* C14 witness: a tick in which a reminder failed, a later notice was still
\* attempted and delivered, and a daily summary failed after that.
C14_Witness ==
    /\ loopPc = "sleep"
    /\ Len(tickLog) >= 3
    /\ tickLog[1].message.kind = "PaymentReminder" /\ ~tickLog[1].delivered
    /\ tickLog[2].delivered
    /\ \E k \in 3..Len(tickLog) :
         tickLog[k].message.kind = "DailySummary" /\ ~tickLog[k].delivered

-----------------------------------------------------------------------------
(* Claims about the add and edit conversations, checked under ConvSpec *)

\* A step that inserted a row owned by u
RecordCreatedFor(u) ==
    \E i \in (DOMAIN subscriptions') \ (DOMAIN subscriptions) :
        subscriptions'[i].user_id = u

\* The inputs a flow accepted, in order, when it stands at the period choice
FullIntake == <<"name", "price", "comment", "start_date">>

\* C16: a record is created only by a period selection made in the
\* period-selection state of a flow that accepted, in this order, a name, a
\* price, a comment and a start date; a period selection in any earlier
\* state creates no record.
C16_IntakeOrdered ==
    [][\A u \in Users :
          /\ RecordCreatedFor(u) =>
                 /\ convAdd[u] = "WAITING_PERIOD"
                 /\ flowTrace[u] = FullIntake
                 /\ \E period \in PeriodButtons : PeriodSelection(u, period)
          /\ (/\ convAdd[u] # "WAITING_PERIOD"
              /\ \E period \in PeriodButtons : PeriodSelection(u, period))
                 => subscriptions' = subscriptions]_vars

\* C16 witness: a flow went through the four inputs and the period choice
\* and its record is in the table.
C16_Witness ==
    \E u \in Users :
        /\ flowTrace[u] = Append(FullIntake, "period")
        /\ \E i \in DOMAIN subscriptions : subscriptions[i].user_id = u

\* C17: every record of the repository carries a name, a price, a comment
\* (possibly empty), a start date and a period; none was written with a
\* field that the flow had not been given.
C17_NoPartialRecord ==
    \A i \in DOMAIN subscriptions :
        /\ subscriptions[i].name # "None"
        /\ subscriptions[i].price >= 0
        /\ subscriptions[i].comment # "None"
        /\ subscriptions[i].start_date # NoDate
        /\ subscriptions[i].period # "None"

\* C17 witness: a record is stored while a later flow, restarted in the
\* middle by the add button, stands at the period choice with part of its
\* data missing.
C17_Witness ==
    \E u \in Users :
        /\ \E i \in DOMAIN subscriptions : subscriptions[i].user_id = u
        /\ convAdd[u] = "WAITING_PERIOD"
        /\ u \in DOMAIN user_states
        /\ DOMAIN user_states[u] # DataKeys

\* Texts that are no name (under 2 characters once trimmed), no price (not a
\* non-negative number) and no date (in none of the accepted formats)
InvalidNames == {"N", "N "}

InvalidPrices == {"-5", "abc"}

InvalidDates == {"31.02.2024"}

\* A step in which u sent an invalid text to the state that awaits it
InvalidInput(u) ==
    \/ \E text \in InvalidNames : HandleName(u, text)
    \/ \E text \in InvalidPrices : HandlePrice(u, text)
    \/ \E text \in InvalidDates : HandleDate(u, text)

\* C18: an invalid name, price or date leaves the flow in its state, the
\* collected data as they were and the repository untouched, so the same
\* input can be sent again.
C18_InvalidInputKeepsState ==
    [][\A u \in Users :
          InvalidInput(u) =>
              /\ convAdd' = convAdd
              /\ user_states' = user_states
              /\ subscriptions' = subscriptions
              /\ sqliteSequence' = sqliteSequence]_vars

\* C18 witness: a flow that stands in a state awaiting a name, a price or a
\* date, where each of the invalid texts can be sent.
C18_Witness ==
    \E u \in Users :
        /\ convAdd[u] = "WAITING_DATE"
        /\ flowTrace[u] = <<"name", "price", "comment">>
        /\ "start_date" \notin DOMAIN user_states[u]

\* C19: /cancel or the cancel button in any state of a running flow, the
\* period choice included, removes the collected data, ends the flow and
\* creates no record.
C19_CancelDiscards ==
    [][\A u \in Users :
          (convAdd[u] # "END" /\ (CancelCommand(u) \/ CancelButton(u))) =>
              /\ convAdd'[u] = "END"
              /\ u \notin DOMAIN user_states'
              /\ subscriptions' = subscriptions
              /\ sqliteSequence' = sqliteSequence]_vars

\* C19 witness: a flow was cancelled at the period choice, after all four
\* inputs, and no record was ever written.
C19_Witness ==
    \E u \in Users :
        /\ flowTrace[u] = Append(FullIntake, "cancel")
        /\ convAdd[u] = "END"
        /\ u \notin DOMAIN user_states
        /\ sqliteSequence = 0

\* C20: whenever the edit flow awaits a new value, some input of the user
\* ends it and leaves the table as it was.
C20_EditCancellable ==
    \A u \in Talkers :
        convEdit[u] = "EDIT_VALUE" =>
            ENABLED (/\ ConvNext
                     /\ convEdit'[u] = "END"
                     /\ subscriptions' = subscriptions)

-----------------------------------------------------------------------------
(* Claims about parse_date_flexible, checked under DateSpec *)

\* A text of the form YYYY-MM-DD that names a day of the calendar
Canonical(chars) ==
    /\ Len(chars) = 10
    /\ chars[5] = "-"
    /\ chars[8] = "-"
    /\ AllDigits(SubSeq(chars, 1, 4))
    /\ AllDigits(SubSeq(chars, 6, 7))
    /\ AllDigits(SubSeq(chars, 9, 10))
    /\ IsValidDate(Date(DigitsValue(SubSeq(chars, 1, 4)),
                        DigitsValue(SubSeq(chars, 6, 7)),
                        DigitsValue(SubSeq(chars, 9, 10))))

\* C25: the text the date parser returns, which intake and edit store as
\* start_date, is a calendar date written YYYY-MM-DD, and the parser maps
\* it to itself.
C25_StoredDateCanonical ==
    (datePc = "parsed" /\ dateStored # NoText) =>
        /\ Canonical(dateStored)
        /\ NormalizedDate(dateStored, dateZeroPad) = dateStored

\* The day, month and year fields of a day-month-year text whose year has
\* two digits; <<>> for any other text
TwoDigitYearFields(chars) ==
    LET text == RemoveSpaces(chars)
        splits == {sep \in DateSeparators :
                      /\ Len(Split(text, sep)) = 3
                      /\ Len(Split(text, sep)[1]) <= 2
                      /\ Len(Split(text, sep)[3]) = 2
                      /\ AllDigits(Split(text, sep)[3])}
    IN  IF splits = {} THEN <<>> ELSE Split(text, CHOOSE sep \in splits : TRUE)

\* C26: an accepted date written with a two-digit year YY is normalized to
\* the year 2000 + YY.
C26_TwoDigitYearIs20YY ==
    (datePc = "parsed" /\ dateStored # NoText /\ TwoDigitYearFields(dateText) # <<>>) =>
        DigitsValue(Split(dateStored, "-")[1])
            = 2000 + DigitsValue(TwoDigitYearFields(dateText)[3])

-----------------------------------------------------------------------------
(* Claims about the per-field rules, checked under FieldSpec *)

\* C21: for every field and text, the edit conversation accepts the text
\* exactly when the add conversation accepts it for that field, and stores
\* the value the add conversation would store.
C21_EditAppliesIntakeRules ==
    fieldPc = {"intake", "edit"} => fieldEdit = fieldIntake

-----------------------------------------------------------------------------
(* Claims about stored values *)

\* C22 (under ConvSpec): every stored subscription's period is one of
\* daily, weekly, monthly, quarterly, yearly.
C22_PeriodInClosedSet ==
    \A i \in DOMAIN subscriptions : subscriptions[i].period \in Periods

\* C23 (under EditSpec): every stored subscription's status is one of
\* active, paused, cancelled.
C23_StatusInClosedSet ==
    \A i \in DOMAIN subscriptions : subscriptions[i].status \in Statuses

\* C24 (under EditSpec): every stored subscription's price is a number
\* that is not negative.
C24_PriceNonNegative ==
    \A i \in DOMAIN subscriptions : subscriptions[i].price \in Nat

\* C24 witness: a price typed in the edit flow, where '-5' and 'abc' are
\* typed as well, has replaced the price given at intake.
C24_Witness ==
    \E i \in DOMAIN subscriptions :
        /\ subscriptions[i].price = 7
        /\ \A u \in Talkers : convEdit[u] = "END"

\* The add conversation given Netflix, 599, '-', 01.06.2024 and monthly
\* stores the comment as the empty string and the date as 2024-06-01, and
\* the listing of ListingDay shows the row with the given next payment and
\* with days left the distance from ListingDay to it.
EndToEnd(next_payment) ==
    \A u \in Users :
        /\ (u \in DOMAIN user_states /\ HandleComment(u, "-"))
               => user_states'[u]["comment"] = ""
        /\ (u \in DOMAIN user_states /\ HandleDate(u, "01.06.2024"))
               => user_states'[u]["start_date"] = Date(2024, 6, 1)
        /\ (RecordCreatedFor(u) /\ PeriodSelection(u, "monthly")) =>
               LET id == sqliteSequence'
                   row == subscriptions'[id]
                   line == show_subscriptions(subscriptions', u, ListingDay)[id]
               IN  /\ row.name = "Netflix"
                   /\ row.price = 599
                   /\ row.comment = ""
                   /\ row.start_date = Date(2024, 6, 1)
                   /\ row.period = "monthly"
                   /\ line.next_payment = next_payment
                   /\ line.days_left = DaysBetween(next_payment, ListingDay)

\* C27 as stated (under EditSpec): the listing of 2024-07-01 shows next
\* payment 2024-07-01.
C27_ListingShowsSameDay == [][EndToEnd(Date(2024, 7, 1))]_vars

\* C27 amended: after an intake with name Netflix, price 599, comment '-',
\* date 01.06.2024 and period monthly, the record has start date 2024-06-01
\* and an empty comment, and the listing of 2024-07-01 shows next payment
\* 2024-08-01 with 31 days left.
C27_ListingShowsNextMonth ==
    [][/\ EndToEnd(Date(2024, 8, 1))
       /\ DaysBetween(Date(2024, 8, 1), ListingDay) = 31]_vars

\* C27 witness: the record of that intake is stored and listed.
C27_Witness ==
    \E u \in Users :
        /\ flowTrace[u] = Append(FullIntake, "period")
        /\ \E i \in DOMAIN show_subscriptions(subscriptions, u, ListingDay) :
               /\ subscriptions[i].name = "Netflix"
               /\ subscriptions[i].start_date = Date(2024, 6, 1)
               /\ subscriptions[i].period = "monthly"

\* C28 (under EditSpec): when the row being edited no longer exists, the
\* commit of a new value changes nothing in the table and ends the flow.
C28_MissingIdAborts ==
    \A u \in Talkers :
        (/\ convEdit[u] = "EDIT_VALUE"
         /\ ~RowExists(subscriptions, user_data[u].edit_subscription_id)) =>
            ENABLED (/\ \/ \E text \in CardTexts : EditFieldValue(u, text)
                        \/ \E status \in CardStatusButtons : EditFieldSetStatus(u, status)
                     /\ convEdit'[u] = "END"
                     /\ subscriptions' = subscriptions)

\* The prices of the owner's rows that the active listing returns, restricted
\* to the period names in periods
ActivePrices(table, u, periods) ==
    SumPrice(table, {i \in get_user_subscriptions(table, u, "active") :
                        table[i].period \in periods})

PeriodNames(table) == {table[i].period : i \in DOMAIN table}

\* C29 (under StoreSpec): the monthly, yearly and total figures of an
\* analytics reply are the sums of the prices of exactly the owner's active
\* rows (of that period for monthly and yearly), the by-period figures
\* likewise; a change of an active row to paused or cancelled takes its price
\* out of every sum of its owner that counted it and leaves every other
\* owner's sums alone.
C29_OnlyActiveCounted ==
    [][/\ \A u \in Users :
            (AnalyticsCommand(u) /\ analytics'.shown) =>
               /\ analytics'.monthly = ActivePrices(subscriptions, u, {"monthly"})
               /\ analytics'.yearly = ActivePrices(subscriptions, u, {"yearly"})
               /\ analytics'.total =
                      ActivePrices(subscriptions, u, PeriodNames(subscriptions))
               /\ \A p \in PeriodNames(subscriptions) :
                      IF p \in DOMAIN analytics'.by_category
                        THEN analytics'.by_category[p] =
                                 ActivePrices(subscriptions, u, {p})
                        ELSE \A i \in get_user_subscriptions(subscriptions, u, "active") :
                                 subscriptions[i].period # p
               /\ DOMAIN analytics'.by_category \subseteq PeriodNames(subscriptions)
       /\ \A id \in 1..MaxStoreRows, status \in {"paused", "cancelled"} :
            (/\ SetStatusInactive(id, status)
             /\ RowExists(subscriptions, id)
             /\ subscriptions[id].status = "active") =>
               \A u \in Users, p \in {"monthly", "yearly", "total"} :
                  get_total_expenses(subscriptions', u, p) =
                     get_total_expenses(subscriptions, u, p)
                       - (IF /\ subscriptions[id].user_id = u
                             /\ p \in {"total", subscriptions[id].period}
                            THEN subscriptions[id].price ELSE 0)
      ]_vars

\* An analytics reply for an owner with an active and an inactive row, while
\* another owner has an active row
C29_Witness ==
    /\ analytics.shown
    /\ analytics.total = ActivePrices(subscriptions, analytics.user,
                                      PeriodNames(subscriptions))
    /\ analytics.total > 0
    /\ \E i \in DOMAIN subscriptions :
          /\ subscriptions[i].user_id = analytics.user
          /\ subscriptions[i].status \in {"paused", "cancelled"}
    /\ \E j \in DOMAIN subscriptions :
          /\ subscriptions[j].user_id # analytics.user
          /\ subscriptions[j].status = "active"

\* C30 (under StoreSpec): after delete_<id> on an existing row,
\* get_subscription(id) finds nothing, no listing of any owner and status
\* returns the id, every other row is as before and payment_history keeps its
\* rows; no step of the bot changes payment_history.
C30_HardDeleteNoCascade ==
    [][/\ \A id \in 1..MaxStoreRows :
            (DeleteSubscription(id) /\ RowExists(subscriptions, id)) =>
               /\ ~RowExists(subscriptions', id)
               /\ \A u \in Users, status \in Statuses :
                      id \notin get_user_subscriptions(subscriptions', u, status)
               /\ id \notin get_subscriptions_for_notification(subscriptions')
               /\ \A j \in (DOMAIN subscriptions) \ {id} :
                      RowExists(subscriptions', j) /\ subscriptions'[j] = subscriptions[j]
       /\ payment_history' = payment_history
      ]_vars

\* Row 1 was deleted, row 2 is still there, and the payment_history row that
\* names subscription 1 is still there
C30_Witness ==
    /\ sqliteSequence = 2
    /\ DOMAIN subscriptions = {2}
    /\ \E h \in DOMAIN payment_history : payment_history[h].subscription_id = 1

\* C31 (under ConvSpec): a created row gets an id that is above every id
\* handed out before (none of 1 .. sqliteSequence, deleted or not), the
\* sequence never goes back, and the edit handlers leave the set of ids as
\* it is.
C31_IdsUniqueImmutable ==
    [][/\ \A id \in (DOMAIN subscriptions') \ (DOMAIN subscriptions) :
             /\ id \notin 1..sqliteSequence
             /\ id <= sqliteSequence'
       /\ sqliteSequence' >= sqliteSequence
       /\ \A u \in Talkers :
             (\/ \E text \in EditTexts : EditFieldValue(u, text)
              \/ \E period \in SetPeriodButtons : EditFieldSetPeriod(u, period)
              \/ \E status \in SetStatusButtons : EditFieldSetStatus(u, status)) =>
                DOMAIN subscriptions' = DOMAIN subscriptions
      ]_vars

\* Row 1 was created and deleted, row 2 was created and renamed
C31_Witness ==
    /\ sqliteSequence = 2
    /\ DOMAIN subscriptions = {2}
    /\ subscriptions[2].name = "Hbo"

\* C32 (under Spec): for every existing row and every offered time, the
\* set_notification_time_<id>_<time> button can be pressed with the effect
\* that the row's notification time is the chosen one, every other field of
\* the row and every other row is as before, and the time query for the
\* chosen time returns the row if it is active with notifications enabled.
C32_NotificationTimePersists ==
    \A id \in DOMAIN subscriptions, time \in NotificationTimes :
        ENABLED (/\ SetNotificationTime(id, time)
                 /\ NotificationTimeOf(subscriptions'[id]) = time
                 /\ \A k \in DOMAIN subscriptions[id] :
                        k # "notification_time" => subscriptions'[id][k] = subscriptions[id][k]
                 /\ \A j \in (DOMAIN subscriptions) \ {id} :
                        subscriptions'[j] = subscriptions[j]
                 /\ id \in get_subscriptions_for_notification(subscriptions) =>
                        id \in SubscriptionsForTime(subscriptions', time))

\* C33 (under StartSpec): without a bot token run() gets no further than the
\* abort of setup_application: no handler is registered and no update
\* handled (the repository stays as it was found), the notification loop is
\* not started and nothing is sent.
C33_MissingTokenAborts ==
    ~botToken =>
        /\ runPc \in {"main", "aborted"}
        /\ loopPc = "idle"
        /\ sent = {}
        /\ tickLog = <<>>
        /\ subscriptions \in InitialTables

\* setup_application has raised for the missing token
C33_Witness == ~botToken /\ runPc = "aborted" /\ subscriptions # EmptyTable

\* C34 (under CalSpec): for every period and every today >= start, the
\* candidate is the occurrence at the estimated step k, at most one further
\* step is applied (the quarterly loop runs at most once), and the result is
\* the occurrence at step k or k + 1 accordingly.
C34_AtMostOneCorrection ==
    (NextCalled /\ StartedByToday /\ calPeriod \in Periods) =>
        LET c == Candidate(calStart, calPeriod, calToday)
            n == CorrectionSteps(calStart, calPeriod, calToday)
            k == StepsTo(calStart, calPeriod, c)
        IN  /\ n <= 1
            /\ c = ScheduleDate(calStart, calPeriod, k)
            /\ calNext = ScheduleDate(calStart, calPeriod, k + n)

\* A quarterly subscription whose candidate was on or before today: the loop
\* ran once
C34_Witness ==
    /\ NextCalled
    /\ StartedByToday
    /\ calPeriod = "quarterly"
    /\ CorrectionSteps(calStart, calPeriod, calToday) = 1
    /\ DateLT(calToday, calNext)

\* C35 (under UpdateSpec): update_subscription on an existing row with
\* fields named returns success, sets exactly those fields of that row and
\* leaves the other fields and rows alone; on a missing id or without fields
\* it returns failure and the table is as before; no call adds a row.
C35_UpdateExactFields ==
    [][\A id \in 1..(MaxSubs + 1), kwargs \in UpdateInputs :
          UpdateSubscription(id, kwargs) =>
             /\ DOMAIN subscriptions' = DOMAIN subscriptions
             /\ IF RowExists(subscriptions, id) /\ DOMAIN kwargs # {}
                  THEN /\ updateResult' = "True"
                       /\ \A k \in DOMAIN kwargs :
                             /\ k \in DOMAIN subscriptions'[id]
                             /\ subscriptions'[id][k] = kwargs[k]
                       /\ \A k \in (DOMAIN subscriptions[id]) \ (DOMAIN kwargs) :
                             subscriptions'[id][k] = subscriptions[id][k]
                       /\ \A j \in (DOMAIN subscriptions) \ {id} :
                             subscriptions'[j] = subscriptions[j]
                  ELSE /\ updateResult' = "False"
                       /\ subscriptions' = subscriptions
      ]_vars

\* C36 (under Spec): a tick whose reminder check raises (its first statement
\* calls a method the Database object lacks) sends no daily summary and ends
\* in the except clause with the clock where it was; from the except clause
\* the loop goes on only by sleeping one interval, which starts the next tick
\* and sends nothing.
C36_ExceptionSkipsSummaries ==
    [][/\ (NotificationLoopTry /\ TimeQueryMethod \notin DatabaseMethods) =>
             /\ \A m \in sent' \ sent : m.kind # "DailySummary"
             /\ loopPc' = "except"
             /\ clockDay' = clockDay /\ clockSlot' = clockSlot
       /\ (loopPc = "except" /\ loopPc' # "except") =>
             /\ loopPc' = "try"
             /\ sent' = sent
             /\ \/ clockDay' = clockDay /\ clockSlot' = clockSlot + 1
                \/ clockDay' = AddDays(clockDay, 1) /\ clockSlot' = 1
      ]_vars

\* The tick at 09:00 found an owner due for a summary, its reminder check
\* raised, nothing was sent, and the next tick has begun
C36_Witness ==
    /\ loopPc = "try"
    /\ clockDay = ClockFirstDay
    /\ clockSlot = 3
    /\ sent = {}
    /\ \E i \in DOMAIN subscriptions :
          /\ subscriptions[i].status = "active"
          /\ subscriptions[i].notifications_enabled
          /\ NotificationTimeOf(subscriptions[i]) = DayMinutes[2]

-----------------------------------------------------------------------------
(* A chat with several members: the buttons under the bot's messages are *)
(* pressed by any of them, and the callback data carries the row id      *)

\* toggle_notifications for a callback query of user u: the handler reads
\* the id from query.data and never query.from_user
ToggleNotificationsButton(u, id) == ToggleNotifications(id)

\* delete_subscription (handler) for a callback query of user u: the id is
\* read from query.data, the row is looked up by id alone
DeleteSubscriptionButton(u, id) == DeleteSubscription(id)

\* The rows of the table before the step that user u does not own are there
\* after it with the values they had
OthersRowsKept(u) ==
    \A id \in DOMAIN subscriptions :
       subscriptions[id].user_id # u =>
          /\ RowExists(subscriptions', id)
          /\ subscriptions'[id] = subscriptions[id]

\* The text sent as the new price, and the field of the card pressed
SharedTexts == {"7"}

SharedFields == {"price"}

\* An id-bearing action of user u: a button with an id in its callback data,
\* or the value of an edit that an edit_field_<id>_<field> button began
IdActionBy(u) ==
    \/ \E id \in 1..MaxSubs : ToggleNotificationsButton(u, id)
    \/ \E id \in 1..MaxSubs : DeleteSubscriptionButton(u, id)
    \/ \E id \in 1..MaxSubs, status \in InactiveListStatuses :
          SetStatusInactiveButton(u, id, status)
    \/ \E text \in SharedTexts : EditFieldValue(u, text)
    \/ \E status \in CardStatusButtons : EditFieldSetStatus(u, status)

\* The tables of the chat: monthly rows of either owner
SharedTables ==
    {t \in InitialTables :
        \A i \in DOMAIN t : t[i].period = "monthly" /\ t[i].start_date = Date(2024, 3, 1)}

SharedInit == UpdateInit /\ subscriptions \in SharedTables

SharedNext ==
    \/ \E u \in Users, id \in 1..MaxSubs, field \in SharedFields : EditFieldEntry(u, id, field)
    \/ \E u \in Users, text \in SharedTexts : EditFieldValue(u, text)
    \/ \E u \in Users, status \in CardStatusButtons : EditFieldSetStatus(u, status)
    \/ \E u \in Users, id \in 1..MaxSubs, status \in InactiveListStatuses :
           SetStatusInactiveButton(u, id, status)
    \/ \E u \in Users, id \in 1..MaxSubs : ToggleNotificationsButton(u, id)
    \/ \E u \in Users, id \in 1..MaxSubs : DeleteSubscriptionButton(u, id)

SharedSpec == SharedInit /\ [][SharedNext]_vars

\* C38 (under SharedSpec): an id-bearing action of user u (toggle
\* notifications, delete, change status, or the value of an edit) leaves
\* every row whose owner is another user in the table with its values.
C38_NoCrossOwnerChange ==
    [][\A u \in Users : IdActionBy(u) => OthersRowsKept(u)]_vars

\* C39 (under CalSpec): for a start date and a period, the elapsed count
\* computed for an end date on or after the start is at least 1, and is not
\* smaller than the count computed for any earlier end date from the start
\* date on.
C39_CountMonotoneInEnd ==
    (calPc = "counted" /\ calPeriod \in Periods /\ DateLE(calStart, calToday))
        => /\ calCount >= 1
           /\ \A n \in 0..DaysBetween(calToday, calStart) :
                 ElapsedPeriods(calStart, calPeriod, AddDays(calStart, n)) <= calCount

\* The value of the edit that user u has open: a text for the field, or a
\* status button of the card
EditSubmitted(u) ==
    \/ \E text \in CardTexts : EditFieldValue(u, text)
    \/ \E status \in CardStatusButtons : EditFieldSetStatus(u, status)

\* User u has begun an edit of a row that has since been deleted
EditOfDeletedRow(u) ==
    /\ convEdit[u] = "EDIT_VALUE"
    /\ user_data[u].edit_subscription_id \in 1..sqliteSequence
    /\ ~RowExists(subscriptions, user_data[u].edit_subscription_id)

\* C40 (under EditSpec): when the value of an edit is submitted for a row
\* that was deleted after the edit began, the row is still absent afterwards,
\* the table holds the rows it held, and no id has been handed out.
C40_EditDoesNotResurrect ==
    [][\A u \in Talkers :
          (EditOfDeletedRow(u) /\ EditSubmitted(u)) =>
             /\ ~RowExists(subscriptions', user_data[u].edit_subscription_id)
             /\ subscriptions' = subscriptions
             /\ sqliteSequence' = sqliteSequence]_vars

\* The edit of row 1 was begun, row 1 was then deleted, and a value for it
\* can be sent
C40_Witness ==
    /\ EditOfDeletedRow(101)
    /\ user_data[101].edit_subscription_id = 1
    /\ user_data[101].edit_field = "price"
    /\ ENABLED EditFieldValue(101, "7")

====
